---- MODULE Spec2Model ----
(***************************************************************************)
(* Execution & reconciliation engine of the order-book executor.           *)
(*                                                                         *)
(* One module, several specifications, one per component:                  *)
(*   SpecWallet  executor/walletPool.js   WalletPool.acquire               *)
(*   SpecExec    executor.multi.js        executeOnchain (dedup, admission)*)
(*   SpecBatch   executor.multi.js /      createResyncBatcher              *)
(*               listener                                                  *)
(*   SpecMatch   db.js + public.read.server.js   /match/entry, /match/exits*)
(*   SpecSync    sync.js                  main, syncFull/syncSLTP/syncStates*)
(* Each specification moves only its own component's variables; the other  *)
(* components stay in their constructed state.                             *)
(***************************************************************************)
EXTENDS Integers, Sequences, FiniteSets, TLC

VARIABLES
  now,          \* Date.now(), in ms
  \* ---- WalletPool (executor/walletPool.js)
  nextIndex,    \* this.nextIndex: rotating cursor
  busyUntil,    \* this.busyUntil[i]: wallet i is free once now >= busyUntil[i]
  wpc,          \* per caller of acquire(): "idle" | "sleeping"
  wakeAt,       \* per sleeping caller: the time its setTimeout is due
  waitBound,    \* history, per sleeping caller: the latest busyUntil at its
                \* call plus the lateness of its timers so far
  lastRet,      \* history: time of the last return of wallet i (-1: never)
  prevRet,      \* history: time of the return of wallet i before that (-1: none)
  passedOver,   \* history: returns of other wallets made while wallet i was
                \* free, since the last return of wallet i
  \* ---- resync batcher (createResyncBatcher)
  pending,      \* pending: Set of trade ids
  timer,        \* timer !== null
  armed,        \* number of setTimeout callbacks not yet fired
  inFlight,     \* inFlight
  active,       \* id sets of the spawned sync.js runs that have not exited yet
  runs,         \* history: the id set of every spawned run, in order
  fires,        \* history: timer callbacks fired so far, saturating at 2
  directCalls,  \* history: direct flush() calls so far
  enqCalls,     \* history: enqueue() calls so far
  firstWindow,  \* history: ids accepted before the first timer callback
  lateIds,      \* history: ids accepted after the first timer callback
  lastOp,       \* history: the batcher operation that ran last
  \* ---- local index (db.js: table trades) and the read API
  index,        \* trades: id -> row, for the ids that have a row
  query,        \* the last /match request since the index last changed
  entryOut,     \* its response {limit, stop}
  exitsOut,     \* its response {stopLoss, takeProfit}
  \* ---- executor (executor.multi.js: main)
  recentlySent, \* recentlySent: key -> time of the last attempt that passed dedup
  lockedCache,  \* lockedCache: tradeId -> lpLockedCapital, for the ids cached
  lpFreeCache,  \* lpFreeCache: {ts, valueE6}
  attempts,     \* the executeOnchain calls made so far, in call order
  \* ---- ledger and one run of sync.js
  nextTradeID,  \* CORE.nextTradeID(): the id of the last trade on the ledger
  ledger,       \* the ledger's trades: id -> trade, for 1 .. nextTradeID
  request,      \* the command line of the run: --mode and the id selector
  runPc,        \* main(): "idle" | "start" | "running" | "done" | "exit0" |
                \* "usage" | "failed"
  maxExistingId, \* maxExistingId, once main() has read it
  batches,      \* the tasks of main(), one per chunk of ids
  fetched,      \* history: per id, getTradesFromList calls that carried it
  upserted,     \* history: per id, batchUpsert requests applied that carried it
  sltpPatched,  \* history: per id, batchPatchSLTP requests applied that carried it
  statePatchCalls, \* history: batchPatchStates requests applied
  index0,       \* history: the index when the run started
  \* ---- write server (write.routes.js)
  response,     \* the last response of the write server: status and count
  \* ---- proof fetcher (executor/proofClient.js)
  proofCache,   \* cache: key -> {proof, ts}
  fetches,      \* the calls of fetchProof, each with the step it has reached
  \* ---- price feed (executor.multi.js, decimalToE6 and the message handler)
  feed,         \* the payload of the message handled last: one price per tick
  handled,      \* what the handler did with each tick of that message
  decimal,      \* the argument of a decimalToE6 call
  scaled,       \* what the call returned, formatted back and converted again
  \* ---- ledger-event listener (the TradeEvent handler)
  recently,     \* tradeId -> time of the last event that passed the debounce
  events        \* the TradeEvents received, each with what the handler did

walletVars == <<nextIndex, busyUntil, wpc, wakeAt, waitBound, lastRet, prevRet,
                passedOver>>
batchVars == <<pending, timer, armed, inFlight, active, runs, fires, directCalls,
               enqCalls, firstWindow, lateIds, lastOp>>

indexVars == <<index>>
matchVars == <<query, entryOut, exitsOut>>

execVars == <<recentlySent, lockedCache, lpFreeCache, attempts>>

syncVars == <<nextTradeID, ledger, request, runPc, maxExistingId, batches,
              fetched, upserted, sltpPatched, statePatchCalls, index0>>

writeVars == <<response>>

proofVars == <<proofCache, fetches>>

feedVars == <<feed, handled, decimal, scaled>>

listenVars == <<recently, events>>

vars == <<now, walletVars, batchVars, indexVars, matchVars, execVars, syncVars,
          writeVars, proofVars, feedVars, listenVars>>

Max(a, b) == IF a >= b THEN a ELSE b
Min(a, b) == IF a <= b THEN a ELSE b

(***************************************************************************)
(* Clock.  Date.now() is milliseconds since 1970, far above every window   *)
(* of the program, so the clock starts above the largest window.           *)
(***************************************************************************)
StartTime == 20

(***************************************************************************)
(* WalletPool                                                              *)
(***************************************************************************)
NumWallets == 2          \* privateKeys.length (>= 1, constructor throws on 0)
NumCallers == 2          \* concurrent callers of acquire()
perWalletDelayMs == 12   \* constructor parameter (default 1000)
MinWaitMs == 10          \* Math.max(10, ...) in acquire()
WalletHorizon == 16      \* the clock runs to StartTime + WalletHorizon

Wallets == 0 .. (NumWallets - 1)
Callers == 1 .. NumCallers

WalletInit ==
  /\ nextIndex = 0
  /\ busyUntil = [i \in Wallets |-> 0]
  /\ wpc = [c \in Callers |-> "idle"]
  /\ wakeAt = [c \in Callers |-> 0]
  /\ waitBound = [c \in Callers |-> 0]
  /\ lastRet = [i \in Wallets |-> -1]
  /\ prevRet = [i \in Wallets |-> -1]
  /\ passedOver = [i \in Wallets |-> 0]

\* line 23: if (now >= this.busyUntil[i])
IsFreeOneEarly(i, t) == t + 1 >= busyUntil[i]
IsFree(i, t) == t >= busyUntil[i]

ScanIndexFromZero(tries) == tries % NumWallets

\* line 22: i = (this.nextIndex + tries) % this.wallets.length
ScanIndex(tries) == (nextIndex + tries) % NumWallets

\* lines 21-28: the first tries whose wallet is free, NumWallets when none is
FirstFreeTry(t) ==
  IF \E k \in 0 .. (NumWallets - 1) : IsFree(ScanIndex(k), t)
  THEN CHOOSE k \in 0 .. (NumWallets - 1) :
         /\ IsFree(ScanIndex(k), t)
         /\ \A j \in 0 .. (k - 1) : ~IsFree(ScanIndex(j), t)
  ELSE NumWallets

\* line 25: this.busyUntil[i] = now + this.perWalletDelayMs
BusyUntilAfter(t) == t + perWalletDelayMs

\* line 31: Math.min(...this.busyUntil)
Earliest ==
  CHOOSE m \in {busyUntil[i] : i \in Wallets} :
    \A i \in Wallets : m <= busyUntil[i]

\* line 32: waitMs = Math.max(10, earliest - now)
WaitMs(t) == Max(MinWaitMs, Earliest - t)

poolVars == <<nextIndex, busyUntil, lastRet, prevRet, passedOver>>

PoolReturnCursorStays(i) ==
  /\ nextIndex' = nextIndex
  /\ busyUntil' = [busyUntil EXCEPT ![i] = BusyUntilAfter(now)]
  /\ prevRet' = [prevRet EXCEPT ![i] = lastRet[i]]
  /\ lastRet' = [lastRet EXCEPT ![i] = now]
  /\ passedOver' = [j \in Wallets |->
                      IF j = i THEN 0
                      ELSE IF IsFree(j, now) THEN passedOver[j] + 1
                      ELSE passedOver[j]]

\* lines 24-26: wallet i is returned at time now.
PoolReturn(i) ==
  /\ nextIndex' = (i + 1) % NumWallets
  /\ busyUntil' = [busyUntil EXCEPT ![i] = BusyUntilAfter(now)]
  /\ prevRet' = [prevRet EXCEPT ![i] = lastRet[i]]
  /\ lastRet' = [lastRet EXCEPT ![i] = now]
  /\ passedOver' = [j \in Wallets |->
                      IF j = i THEN 0
                      ELSE IF IsFree(j, now) THEN passedOver[j] + 1
                      ELSE passedOver[j]]

\* One pass of the while loop (lines 18-33) run by caller c at time now: return
\* the first free wallet of the round-robin scan, or go to sleep.
ScanPass(c) ==
  LET k == FirstFreeTry(now) IN
  IF k < NumWallets
  THEN /\ PoolReturn(ScanIndex(k))
       /\ wpc' = [wpc EXCEPT ![c] = "idle"]
       /\ wakeAt' = [wakeAt EXCEPT ![c] = 0]
  ELSE /\ wpc' = [wpc EXCEPT ![c] = "sleeping"]
       /\ wakeAt' = [wakeAt EXCEPT ![c] = now + WaitMs(now)]
       /\ UNCHANGED poolVars

\* The latest busyUntil.
LatestBusy ==
  CHOOSE m \in {busyUntil[i] : i \in Wallets} :
    \A i \in Wallets : m >= busyUntil[i]

\* acquire() is called by an idle caller.
Acquire(c) ==
  /\ wpc[c] = "idle"
  /\ ScanPass(c)
  /\ waitBound' = [waitBound EXCEPT ![c] =
                     IF FirstFreeTry(now) < NumWallets THEN 0 ELSE LatestBusy]
  /\ UNCHANGED <<now, batchVars, indexVars, matchVars, execVars, syncVars,
                 writeVars, proofVars, feedVars, listenVars>>

\* line 33: the setTimeout of a sleeping caller fires (never early) and the
\* loop takes its next pass.
WakeUp(c) ==
  /\ wpc[c] = "sleeping"
  /\ now >= wakeAt[c]
  /\ ScanPass(c)
  /\ waitBound' = [waitBound EXCEPT ![c] =
                     IF FirstFreeTry(now) < NumWallets THEN 0
                     ELSE @ + (now - wakeAt[c])]
  /\ UNCHANGED <<now, batchVars, indexVars, matchVars, execVars, syncVars,
                 writeVars, proofVars, feedVars, listenVars>>

WalletTick ==
  /\ now < StartTime + WalletHorizon
  /\ now' = now + 1
  /\ UNCHANGED <<walletVars, batchVars, indexVars, matchVars, execVars, syncVars,
                 writeVars, proofVars, feedVars, listenVars>>

(***************************************************************************)
(* Resync batcher: createResyncBatcher (executor.multi.js and the listener *)
(* hold the same code)                                                     *)
(***************************************************************************)
MaxResyncId == 3         \* trade ids offered to enqueue(): 0 .. MaxResyncId
MaxEnqueues == 4         \* enqueue() calls in a run of the model
MaxDirect == 1           \* direct flush() calls in a run of the model

\* The arguments enqueue() is called with: finite numbers, 0 among them, and a
\* non-finite one (NaN).
EnqueueInputs ==
  {[finite |-> TRUE, value |-> v] : v \in 0 .. MaxResyncId}
    \cup {[finite |-> FALSE, value |-> 0]}

BatchInit ==
  /\ pending = {}
  /\ timer = FALSE
  /\ armed = 0
  /\ inFlight = FALSE
  /\ active = <<>>
  /\ runs = <<>>
  /\ fires = 0
  /\ directCalls = 0
  /\ enqCalls = 0
  /\ firstWindow = {}
  /\ lateIds = {}
  /\ lastOp = "init"

\* scheduleFlush, line 100: if (timer) return;
ScheduleGuardNever(t) == FALSE
ScheduleGuard(t) == t

\* scheduleFlush (lines 99-105) from a state with timer t and a armed timeouts:
\* the <<timer, armed>> it leaves.
ScheduleFlush(t, a) ==
  IF ScheduleGuard(t) THEN <<t, a>> ELSE <<TRUE, a + 1>>

\* flush, line 108: if (inFlight)
FlushGuardNever(f) == FALSE
FlushGuard(f) == f

\* flush, line 118: pending.clear()
DrainKeeps(p) == p
Drain(p) == {}

\* the timer callback, line 102: timer = null
TimerStaysSet == TRUE
TimerCleared == FALSE

\* enqueue, line 141: if (!Number.isFinite(tradeId) || tradeId <= 0) return;
EnqueueRejects(x) == ~x.finite \/ x.value <= 0

\* flush, line 109: scheduleFlush() when a run is in flight.
RescheduleNot(t, a) == <<t, a>>
Reschedule(t, a) == ScheduleFlush(t, a)

\* flush() up to its first await (lines 108-133), entered with timer t and a
\* armed timeouts: reschedule when a run is in flight, return on an empty
\* pending set, else drain pending and spawn sync.js --mode full --ids <ids>.
Flush(t, a) ==
  IF FlushGuard(inFlight)
  THEN /\ timer' = Reschedule(t, a)[1]
       /\ armed' = Reschedule(t, a)[2]
       /\ UNCHANGED <<pending, inFlight, active, runs>>
  ELSE IF pending = {}
  THEN /\ timer' = t
       /\ armed' = a
       /\ UNCHANGED <<pending, inFlight, active, runs>>
  ELSE /\ timer' = t
       /\ armed' = a
       /\ inFlight' = TRUE
       /\ pending' = Drain(pending)
       /\ active' = Append(active, pending)
       /\ runs' = Append(runs, pending)

\* enqueue(tradeId), lines 140-144.
Enqueue(x) ==
  /\ enqCalls' = enqCalls + 1
  /\ lastOp' = "enqueue"
  /\ IF EnqueueRejects(x)
     THEN UNCHANGED <<pending, timer, armed, firstWindow, lateIds>>
     ELSE /\ pending' = pending \cup {x.value}
          /\ timer' = ScheduleFlush(timer, armed)[1]
          /\ armed' = ScheduleFlush(timer, armed)[2]
          /\ firstWindow' = IF fires = 0 THEN firstWindow \cup {x.value}
                            ELSE firstWindow
          /\ lateIds' = IF fires = 0 THEN lateIds ELSE lateIds \cup {x.value}
  /\ UNCHANGED <<inFlight, active, runs, fires, directCalls>>

\* The setTimeout callback of scheduleFlush (lines 101-104): timer = null, then
\* flush().
TimerFire ==
  /\ armed > 0
  /\ fires' = Min(fires + 1, 2)
  /\ lastOp' = "fire"
  /\ Flush(TimerCleared, armed - 1)
  /\ UNCHANGED <<directCalls, enqCalls, firstWindow, lateIds>>

\* flush() called through the returned object.
DirectFlush ==
  /\ directCalls < MaxDirect
  /\ directCalls' = directCalls + 1
  /\ lastOp' = "direct"
  /\ Flush(timer, armed)
  /\ UNCHANGED <<fires, enqCalls, firstWindow, lateIds>>

\* The spawned sync.js closes (lines 129-132) and flush() resumes in its
\* finally block (lines 134-137): inFlight = false, and a non-empty pending set
\* schedules another flush.
SyncExit(k) ==
  /\ k \in 1 .. Len(active)
  /\ active' = [j \in 1 .. (Len(active) - 1) |->
                  IF j < k THEN active[j] ELSE active[j + 1]]
  /\ inFlight' = FALSE
  /\ lastOp' = "exit"
  /\ timer' = IF pending # {} THEN ScheduleFlush(timer, armed)[1] ELSE timer
  /\ armed' = IF pending # {} THEN ScheduleFlush(timer, armed)[2] ELSE armed
  /\ UNCHANGED <<pending, runs, fires, directCalls, enqCalls, firstWindow,
                 lateIds>>

(***************************************************************************)
(* Local index (db.js) and its matching queries (public.read.server.js)    *)
(***************************************************************************)
MaxPrice == 1            \* E6 prices of the model: 0 .. MaxPrice

MatchIds == {1, 2}       \* trade ids of the index the matching queries run on
AssetIds == {0, 1}       \* assetId values of the model
TradeStates == 0 .. 3    \* 0=Order, 1=Open, 2=Closed, 3=Cancelled

\* A row of table trades (db.js lines 20-47), cut to the columns the matching
\* statements and the sync readers use.
Rows ==
  [assetId : AssetIds, isLong : {0, 1}, isLimit : {0, 1},
   openPrice : 1 .. MaxPrice, state : TradeStates,
   stopLoss : 0 .. MaxPrice, takeProfit : 0 .. MaxPrice]

\* The market prices a /match request carries (unit=e6).
Markets == 0 .. (MaxPrice + 1)

NoIds == {}

IndexInit == index = <<>>

MatchInit ==
  /\ query = [kind |-> "none", assetId |-> 0, marketE6 |-> 0]
  /\ entryOut = [limit |-> NoIds, stop |-> NoIds]
  /\ exitsOut = [stopLoss |-> NoIds, takeProfit |-> NoIds]

\* stmt.upsertTrade: INSERT ... ON CONFLICT(id) DO UPDATE SET every column.
UpsertRow(ix, id, r) ==
  [j \in (DOMAIN ix) \cup {id} |-> IF j = id THEN r ELSE ix[j]]

\* stmt.matchEntry, WHERE (lines 87-99).
EntryWhereLimitLongFlipped(r, a, m) ==
  /\ r.assetId = a
  /\ r.state = 0
  /\ \/ r.isLimit = 1 /\ (\/ r.isLong = 1 /\ m >= r.openPrice
                          \/ r.isLong = 0 /\ m >= r.openPrice)
     \/ r.isLimit = 0 /\ (\/ r.isLong = 1 /\ m >= r.openPrice
                          \/ r.isLong = 0 /\ m <= r.openPrice)
EntryWhere(r, a, m) ==
  /\ r.assetId = a
  /\ r.state = 0
  /\ \/ r.isLimit = 1 /\ (\/ r.isLong = 1 /\ m <= r.openPrice
                          \/ r.isLong = 0 /\ m >= r.openPrice)
     \/ r.isLimit = 0 /\ (\/ r.isLong = 1 /\ m >= r.openPrice
                          \/ r.isLong = 0 /\ m <= r.openPrice)

\* stmt.matchEntry, SELECT (line 85): CASE WHEN isLimit = 1 THEN 'limit' ELSE 'stop'
EntryKind(r) == IF r.isLimit = 1 THEN "limit" ELSE "stop"

\* stmt.matchExits, the first WHEN of the CASE (lines 106-109).
CaseStopLossNoZeroTest(r, m) ==
  \/ r.isLong = 1 /\ m <= r.stopLoss
  \/ r.isLong = 0 /\ m >= r.stopLoss
CaseStopLoss(r, m) ==
  /\ r.stopLoss # 0
  /\ \/ r.isLong = 1 /\ m <= r.stopLoss
     \/ r.isLong = 0 /\ m >= r.stopLoss

\* stmt.matchExits, the second WHEN of the CASE (lines 110-113).
CaseTakeProfit(r, m) ==
  /\ r.takeProfit # 0
  /\ \/ r.isLong = 1 /\ m >= r.takeProfit
     \/ r.isLong = 0 /\ m <= r.takeProfit

\* stmt.matchExits, SELECT (lines 105-115): the first WHEN that holds decides.
ExitKindTakeProfitFirst(r, m) ==
  IF CaseTakeProfit(r, m) THEN "takeProfit"
  ELSE IF CaseStopLoss(r, m) THEN "stopLoss"
  ELSE "null"
ExitKind(r, m) ==
  IF CaseStopLoss(r, m) THEN "stopLoss"
  ELSE IF CaseTakeProfit(r, m) THEN "takeProfit"
  ELSE "null"

\* stmt.matchExits, WHERE (lines 117-129).
ExitsWhere(r, a, m) ==
  /\ r.assetId = a
  /\ r.state = 1
  /\ \/ /\ r.stopLoss # 0
        /\ \/ r.isLong = 1 /\ m <= r.stopLoss
           \/ r.isLong = 0 /\ m >= r.stopLoss
     \/ /\ r.takeProfit # 0
        /\ \/ r.isLong = 1 /\ m >= r.takeProfit
           \/ r.isLong = 0 /\ m <= r.takeProfit

\* GET /match/entry?assetId=a&market=m&unit=e6 (public.read.server.js 82-99).
GetMatchEntry(a, m) ==
  LET rows == {id \in DOMAIN index : EntryWhere(index[id], a, m)} IN
  /\ query' = [kind |-> "entry", assetId |-> a, marketE6 |-> m]
  /\ entryOut' = [limit |-> {id \in rows : EntryKind(index[id]) = "limit"},
                  stop |-> {id \in rows : EntryKind(index[id]) = "stop"}]
  /\ exitsOut' = [stopLoss |-> NoIds, takeProfit |-> NoIds]
  /\ UNCHANGED index

\* GET /match/exits?assetId=a&market=m&unit=e6 (public.read.server.js 103-124).
GetMatchExits(a, m) ==
  LET rows == {id \in DOMAIN index : ExitsWhere(index[id], a, m)} IN
  /\ query' = [kind |-> "exits", assetId |-> a, marketE6 |-> m]
  /\ exitsOut' = [stopLoss |-> {id \in rows : ExitKind(index[id], m) = "stopLoss"},
                  takeProfit |-> {id \in rows : ExitKind(index[id], m) = "takeProfit"}]
  /\ entryOut' = [limit |-> NoIds, stop |-> NoIds]
  /\ UNCHANGED index

(***************************************************************************)
(* Executor: executeOnchain and its caches (executor.multi.js, main)       *)
(***************************************************************************)
DEDUP_MS == 3            \* EXECUTION_DEDUP_MS (default 15000)
LP_FREE_TTL_MS == 2      \* LP_FREE_TTL_MS (default 1500)
MaxAttempts == 3         \* executeOnchain calls in a run of the model
ExecHorizon == 3         \* the clock ticks up to StartTime + ExecHorizon
MaxRepairs == 1          \* upserts a reconciliation makes on one row

\* The trade ids the match lists carry.
ExecIds == {1}
Kinds == {"entry", "exit"}
Keys == [kind : Kinds, tradeId : ExecIds]
\* lpLockedCapital of a trade and lpFreeCapital of the vault (unit=e6).
Capitals == {0, 1}

ExecInit ==
  /\ recentlySent = [k \in Keys |-> 0]
  /\ lockedCache = <<>>
  /\ lpFreeCache = [ts |-> 0, valueE6 |-> 0]
  /\ attempts = <<>>

\* line 247: if (now - last < DEDUP_MS) return;  with last = get(key) || 0
\* line 247: the return of a call inside the window; recentlySent is written
\* at line 248 only.
SentAfterSkipRefreshed(rs, key, t) == [rs EXCEPT ![key] = t]
SentAfterSkip(rs, key, t) == rs

DedupHitShortWindow(last, t) == t - last < DEDUP_MS - 1
DedupHit(last, t) == t - last < DEDUP_MS

LpFreeFreshForever(t) == TRUE

\* line 221: if (now - lpFreeCache.ts < LP_FREE_TTL_MS) return lpFreeCache.valueE6
LpFreeFresh(t) == t - lpFreeCache.ts < LP_FREE_TTL_MS

AfterLockedNoZeroSkip(v, t) ==
  IF ~LpFreeFresh(t) THEN "freeRpc"
  ELSE IF lpFreeCache.valueE6 < v THEN "skipLiquidity"
  ELSE "acquire"

\* lines 252-263, once the locked amount v is known at time t: the locked = 0
\* skip, then getLpFreeCapitalE6 up to its await, then the free < locked skip.
AfterLocked(v, t) ==
  IF v <= 0 THEN "skipStale"
  ELSE IF ~LpFreeFresh(t) THEN "freeRpc"
  ELSE IF lpFreeCache.valueE6 < v THEN "skipLiquidity"
  ELSE "acquire"

AfterFreeAlwaysAcquire(v, f) == "acquire"

\* lines 260-266, once the free capital f is known.
AfterFree(v, f) == IF f < v THEN "skipLiquidity" ELSE "acquire"

CatchResyncsAfterProof(pc) == pc \in {"submit", "confirm"}

\* The awaits inside the try block of lines 269-293, whose catch enqueues the
\* trade: fetchProof, the ledger call, tx.wait(1).
CatchResyncs(pc) == pc \in {"proof", "submit", "confirm"}

Terminal(pc) ==
  pc \in {"deduped", "skipStale", "skipLiquidity", "rejected", "failed",
          "confirmed"}

\* The step the latest earlier call for (kind, id) that passed the dedup test
\* has reached, "none" when there is no such call.
LastPassed(kind, id) ==
  LET S == {a \in 1 .. Len(attempts) :
              /\ attempts[a].kind = kind
              /\ attempts[a].tradeId = id
              /\ attempts[a].pc # "deduped"}
  IN IF S = {} THEN "none"
     ELSE attempts[CHOOSE a \in S : \A c \in S : c <= a].pc

\* One call of executeOnchain: its arguments, the time of line 245, the step it
\* has reached, and what it has seen and done: locked and free are the amounts
\* it compared (-1 while not read), freeYoung whether the cache entry free
\* came from was younger than LP_FREE_TTL_MS when getLpFreeCapitalE6 was
\* called, enq the number of resyncBatcher.enqueue calls it made, afterSkip
\* whether the previous call that passed dedup for the key had been skipped
\* for short liquidity, upserts the number of upserts the trade's row had
\* received when the call was made, prior the attempt that got the same
\* wallet last before this one (0 when there is none).
NewAttempt(kind, id) ==
  [kind |-> kind, tradeId |-> id, t0 |-> now, pc |-> "deduped", locked |-> -1,
   free |-> -1, freeYoung |-> FALSE, enq |-> 0,
   afterSkip |-> (LastPassed(kind, id) = "skipLiquidity"),
   upserts |-> upserted[id],
   freeNow |-> 0, wakeAt |-> 0, wallet |-> -1, acquired |-> FALSE,
   prior |-> 0, submitted |-> FALSE]

\* getLpFreeCapitalE6 answered from the cache at time t (line 221) for an
\* attempt whose locked amount is v.
WithCachedFree(att, v, t) ==
  IF v > 0 /\ LpFreeFresh(t)
  THEN [att EXCEPT !.free = lpFreeCache.valueE6,
                   !.freeYoung = (lpFreeCache.ts > t - LP_FREE_TTL_MS)]
  ELSE att

\* The attempt that acquired wallet i last, 0 when none has: the one no other
\* holder of i names as its prior.
LastHolder(i) ==
  LET H == {a \in 1 .. Len(attempts) :
              attempts[a].acquired /\ attempts[a].wallet = i}
  IN IF H = {} THEN 0
     ELSE CHOOSE a \in H : \A b \in H : attempts[b].prior # a

\* The attempt record att moves on to step: the locked = 0 skip enqueues the
\* trade for resync (line 254), "acquire" runs the first pass of
\* walletPool.acquire() (line 266), every other step only waits or returns.
Proceed(base, a, att, step) ==
  CASE step = "skipStale" ->
         /\ attempts' = [base EXCEPT ![a] =
              [att EXCEPT !.pc = "skipStale", !.enq = @ + 1]]
         /\ Enqueue([finite |-> TRUE, value |-> att.tradeId])
         /\ UNCHANGED <<poolVars, inFlight, active, runs, fires, directCalls>>
    [] step = "acquire" ->
         LET k == FirstFreeTry(now) IN
         /\ IF k < NumWallets
            THEN /\ PoolReturn(ScanIndex(k))
                 /\ attempts' = [base EXCEPT ![a] =
                      [att EXCEPT !.pc = "proof", !.wallet = ScanIndex(k),
                                  !.acquired = TRUE, !.wakeAt = 0,
                                  !.prior = LastHolder(ScanIndex(k))]]
            ELSE /\ UNCHANGED poolVars
                 /\ attempts' = [base EXCEPT ![a] =
                      [att EXCEPT !.pc = "sleeping",
                                  !.wakeAt = now + WaitMs(now)]]
         /\ UNCHANGED batchVars
    [] OTHER ->
         /\ attempts' = [base EXCEPT ![a] = [att EXCEPT !.pc = step]]
         /\ UNCHANGED <<poolVars, batchVars>>

execFrame == <<now, wpc, wakeAt, waitBound, indexVars, matchVars, syncVars, writeVars, proofVars, feedVars, listenVars>>

\* executeOnchain({kind, tradeId}) is called (lines 243-266, to its first await
\* that waits): dedup, then for an entry the locked-capital read, which a cache
\* hit answers at once.
Execute(kind, id) ==
  LET key == [kind |-> kind, tradeId |-> id]
      a == Len(attempts) + 1
      att == NewAttempt(kind, id)
  IN
  /\ Len(attempts) < MaxAttempts
  /\ IF DedupHit(recentlySent[key], now)
     THEN /\ attempts' = Append(attempts, att)
          /\ recentlySent' = SentAfterSkip(recentlySent, key, now)
          /\ UNCHANGED <<lockedCache, lpFreeCache, poolVars, batchVars>>
     ELSE /\ recentlySent' = [recentlySent EXCEPT ![key] = now]
          /\ UNCHANGED <<lockedCache, lpFreeCache>>
          /\ LET step == IF kind = "exit" THEN "acquire"
                         ELSE IF id \in DOMAIN lockedCache
                         THEN AfterLocked(lockedCache[id], now)
                         ELSE "lockedHttp"
                 att1 == IF kind = "entry" /\ id \in DOMAIN lockedCache
                         THEN WithCachedFree(
                                [att EXCEPT !.locked = lockedCache[id],
                                            !.freeNow = now],
                                lockedCache[id], now)
                         ELSE att
             IN Proceed(Append(attempts, att), a, att1, step)
  /\ UNCHANGED execFrame

\* The message handler as it would be with every executeOnchain call awaited
\* before the next is made.
ExecuteAwaited(kind, id) ==
  /\ \A a \in 1 .. Len(attempts) : Terminal(attempts[a].pc)
  /\ Execute(kind, id)

\* The message handler makes the calls of a tick one after the other without
\* awaiting them (lines 371-381): executeOnchain(..).catch(..), then sleep(5).
Dispatch(kind, id) == Execute(kind, id)

\* GET /trade/:id answers with lpLockedCapital = v (lines 235-238), and
\* executeOnchain goes on (lines 252-266).
LockedHttpOk(a, v) ==
  /\ a \in 1 .. Len(attempts)
  /\ attempts[a].pc = "lockedHttp"
  /\ lockedCache' = UpsertRow(lockedCache, attempts[a].tradeId, v)
  /\ Proceed(attempts, a,
             WithCachedFree([attempts[a] EXCEPT !.locked = v, !.freeNow = now],
                            v, now),
             AfterLocked(v, now))
  /\ UNCHANGED <<recentlySent, lpFreeCache>>
  /\ UNCHANGED execFrame

\* vault.lpFreeCapital() answers f (lines 223-227): the cache takes the time
\* read before the call; executeOnchain goes on (lines 260-266).
FreeRpcOk(a, f) ==
  /\ a \in 1 .. Len(attempts)
  /\ attempts[a].pc = "freeRpc"
  /\ lpFreeCache' = [ts |-> attempts[a].freeNow, valueE6 |-> f]
  /\ Proceed(attempts, a,
             [attempts[a] EXCEPT !.freeNow = 0, !.free = f,
                                 !.freeYoung = TRUE],
             AfterFree(attempts[a].locked, f))
  /\ UNCHANGED <<recentlySent, lockedCache>>
  /\ UNCHANGED execFrame

\* GET /trade/:id or vault.lpFreeCapital() throws: executeOnchain rejects, and
\* the caller's .catch only logs (lines 372-373).
AdmissionReadFails(a) ==
  /\ a \in 1 .. Len(attempts)
  /\ attempts[a].pc \in {"lockedHttp", "freeRpc"}
  /\ Proceed(attempts, a, attempts[a], "rejected")
  /\ UNCHANGED <<recentlySent, lockedCache, lpFreeCache>>
  /\ UNCHANGED execFrame

\* The setTimeout of walletPool.acquire() fires for a sleeping attempt and the
\* loop takes its next pass (walletPool.js lines 17-34).
ExecWake(a) ==
  /\ a \in 1 .. Len(attempts)
  /\ attempts[a].pc = "sleeping"
  /\ now >= attempts[a].wakeAt
  /\ Proceed(attempts, a, attempts[a], "acquire")
  /\ UNCHANGED <<recentlySent, lockedCache, lpFreeCache>>
  /\ UNCHANGED execFrame

StepAfterLedgerFirst(pc) ==
  CASE pc = "proof" -> "confirm"
    [] pc = "submit" -> "confirm"
    [] pc = "confirm" -> "confirmed"

\* The awaits of the try block in their order (lines 270-283): the proof
\* fetch, then the ledger call, then tx.wait(1).
StepAfter(pc) ==
  CASE pc = "proof" -> "submit"
    [] pc = "submit" -> "confirm"
    [] pc = "confirm" -> "confirmed"

\* fetchProof resolves (line 270) and the ledger call is made (lines 273,
\* 280), or the ledger call returns the transaction, or tx.wait(1) resolves
\* (lines 275, 282).
ExecStepOk(a) ==
  /\ a \in 1 .. Len(attempts)
  /\ attempts[a].pc \in {"proof", "submit", "confirm"}
  /\ attempts' = [attempts EXCEPT ![a] =
       [@ EXCEPT !.pc = StepAfter(attempts[a].pc),
                 !.submitted = @ \/ StepAfter(attempts[a].pc) = "submit"]]
  /\ UNCHANGED <<recentlySent, lockedCache, lpFreeCache, poolVars, batchVars>>
  /\ UNCHANGED execFrame

\* fetchProof, the ledger call or tx.wait(1) throws: the catch block enqueues
\* the trade for resync (lines 290-293).
ExecStepFails(a) ==
  /\ a \in 1 .. Len(attempts)
  /\ attempts[a].pc \in {"proof", "submit", "confirm"}
  /\ IF CatchResyncs(attempts[a].pc)
     THEN /\ attempts' = [attempts EXCEPT ![a] =
                            [@ EXCEPT !.pc = "failed", !.enq = @ + 1]]
          /\ Enqueue([finite |-> TRUE, value |-> attempts[a].tradeId])
     ELSE /\ attempts' = [attempts EXCEPT ![a] = [@ EXCEPT !.pc = "failed"]]
          /\ UNCHANGED batchVars
  /\ UNCHANGED <<recentlySent, lockedCache, lpFreeCache, poolVars>>
  /\ UNCHANGED execFrame

\* The row of an order that waits for its entry, with lpLockedCapital = v.
OrderRow(v) ==
  [assetId |-> 0, isLong |-> 1, isLimit |-> 0, openPrice |-> 1, state |-> 0,
   stopLoss |-> 0, takeProfit |-> 0, lpLockedCapital |-> v]

\* GET /trade/:id answers with the row the index holds (public.read.server.js
\* lines 69-78), and getTradeLockedE6 takes its lpLockedCapital (line 236).
LockedHttpFromIndex(a) ==
  /\ a \in 1 .. Len(attempts)
  /\ attempts[a].tradeId \in DOMAIN index
  /\ LockedHttpOk(a, index[attempts[a].tradeId].lpLockedCapital)

\* A reconciliation run upserts the row of id with the ledger's
\* lpLockedCapital v, which the row did not hold (sync.js syncFull, lines
\* 229-243; db.js lines 138-169).
Reconcile(id, v) ==
  /\ id \in DOMAIN index
  /\ upserted[id] < MaxRepairs
  /\ index[id].lpLockedCapital # v
  /\ index' = UpsertRow(index, id, OrderRow(v))
  /\ upserted' = [upserted EXCEPT ![id] = @ + 1]
  /\ UNCHANGED <<now, walletVars, batchVars, matchVars, execVars, writeVars, proofVars, feedVars, listenVars>>
  /\ UNCHANGED <<nextTradeID, ledger, request, runPc, maxExistingId, batches,
                 fetched, sltpPatched, statePatchCalls, index0>>

\* The clock of the executor process.  Within the horizon it advances by one
\* millisecond at a time.
ExecTick ==
  /\ now < StartTime + ExecHorizon
  /\ now' = now + 1
  /\ UNCHANGED <<walletVars, batchVars, indexVars, matchVars, execVars, syncVars,
                 writeVars, proofVars, feedVars, listenVars>>

\* When every attempt has settled or sleeps in walletPool.acquire(), nothing
\* runs until the earliest setTimeout is due: the clock runs to that time.
ExecSleep ==
  LET sleepers == {a \in 1 .. Len(attempts) : attempts[a].pc = "sleeping"} IN
  /\ sleepers # {}
  /\ \A a \in 1 .. Len(attempts) : a \in sleepers \/ Terminal(attempts[a].pc)
  /\ \A a \in sleepers : now < attempts[a].wakeAt
  /\ now' = CHOOSE t \in {attempts[a].wakeAt : a \in sleepers} :
               \A a \in sleepers : t <= attempts[a].wakeAt
  /\ UNCHANGED <<walletVars, batchVars, indexVars, matchVars, execVars, syncVars,
                 writeVars, proofVars, feedVars, listenVars>>

\* Time passes while requests of attempts are not answered: the clock runs
\* to the time the earliest setTimeout of the sleeping attempts is due.
ExecSleepPending ==
  LET sleepers == {a \in 1 .. Len(attempts) : attempts[a].pc = "sleeping"} IN
  /\ sleepers # {}
  /\ \E a \in 1 .. Len(attempts) :
       a \notin sleepers /\ ~Terminal(attempts[a].pc)
  /\ \A a \in sleepers : now < attempts[a].wakeAt
  /\ now' = CHOOSE t \in {attempts[a].wakeAt : a \in sleepers} :
               \A a \in sleepers : t <= attempts[a].wakeAt
  /\ UNCHANGED <<walletVars, batchVars, indexVars, matchVars, execVars, syncVars,
                 writeVars, proofVars, feedVars, listenVars>>

(***************************************************************************)
(* Reconciliation: one run of sync.js against a ledger that does not       *)
(* change while the run lasts, with no other writer of the index.          *)
(***************************************************************************)
BATCH_SIZE == 2          \* BATCH_SIZE (50 in the program)
RPC_CONCURRENCY == 2     \* RPC_CONCURRENCY (20 in the program)
MaxReq == 3              \* entries of an --ids list: 1 .. MaxReq

Modes == {"full", "sltp", "states"}
\* The trade ids of a ledger that holds trades: nextTradeID is the last of them.
SyncIds == {1, 2}
\* The ids a command line names: 0, the ledger's ids and one beyond them.
ArgIds == 0 .. (Cardinality(SyncIds) + 1)

\* The Trade structs getTradesFromList returns: booleans are booleans there.
LedgerTrades ==
  [assetId : {0}, isLong : {TRUE}, isLimit : {FALSE}, openPrice : {1},
   state : {0, 1}, stopLoss : {0, 1}, takeProfit : {0}]

\* tradeToPayload (lines 203-224), for the columns of the model.
TradeToPayload(t) ==
  [assetId |-> t.assetId,
   isLong |-> IF t.isLong THEN 1 ELSE 0,
   isLimit |-> IF t.isLimit THEN 1 ELSE 0,
   openPrice |-> t.openPrice,
   state |-> t.state,
   stopLoss |-> IF t.stopLoss # 0 THEN t.stopLoss ELSE 0,
   takeProfit |-> IF t.takeProfit # 0 THEN t.takeProfit ELSE 0]

SyncRows == {TradeToPayload(t) : t \in LedgerTrades}

SeqToSet(s) == {s[i] : i \in DOMAIN s}

RangeSeq(lo, hi) == [i \in 1 .. (hi - lo + 1) |-> lo + i - 1]

\* Command lines: --mode m with --ids l, --range a b, --missing-scan a b, or no
\* selector at all.  Any other --mode exits before anything is read (lines
\* 375-379).
IdLists == UNION {[1 .. n -> ArgIds] : n \in 1 .. MaxReq}

Requests ==
  {[mode |-> m, sel |-> "ids", ids |-> l, a |-> 0, b |-> 0] :
     m \in Modes, l \in IdLists}
  \cup {[mode |-> m, sel |-> "range", ids |-> <<>>, a |-> x, b |-> y] :
          m \in Modes, x \in {0} \cup SyncIds, y \in {0} \cup SyncIds}
  \cup {[mode |-> m, sel |-> "scan", ids |-> <<>>, a |-> x, b |-> y] :
          m \in Modes, x \in 0 .. 1, y \in ArgIds}
  \cup {[mode |-> m, sel |-> "none", ids |-> <<>>, a |-> 0, b |-> 0] :
          m \in Modes}

NoRequest == [mode |-> "full", sel |-> "none", ids |-> <<>>, a |-> 0, b |-> 0]

NoCalls == [id \in ArgIds |-> 0]

SyncIdle ==
  /\ nextTradeID = 0
  /\ ledger = <<>>
  /\ request = NoRequest
  /\ runPc = "idle"
  /\ maxExistingId = 0
  /\ batches = <<>>
  /\ fetched = NoCalls
  /\ upserted = NoCalls
  /\ sltpPatched = NoCalls
  /\ statePatchCalls = 0
  /\ index0 = <<>>

\* dbReaders.exists (line 193).
ExistsAlways(ix, id) == TRUE

Exists(ix, id) == id \in DOMAIN ix

\* computeMissingIds (lines 361-367).
ComputeMissingIds(ix, start, end) ==
  LET Missing(id) == ~Exists(ix, id)
  IN SelectSeq(RangeSeq(start, end), Missing)

RequestIdsUnbounded(req, ix, maxId) ==
  LET Valid(n) == n >= 1
  IN CASE req.sel = "ids" -> SelectSeq(req.ids, Valid)
       [] req.sel = "range" -> RangeSeq(Max(1, req.a), Max(1, req.a) + req.b - 1)
       [] req.sel = "scan" ->
            ComputeMissingIds(ix, Max(1, req.a), Min(req.b, maxId))
       [] OTHER -> <<>>

\* The ids main() ends up with (lines 399-421).
RequestIds(req, ix, maxId) ==
  LET Valid(n) == n >= 1
      InBound(id) == id >= 1 /\ id <= maxId
      ids == CASE req.sel = "ids" -> SelectSeq(req.ids, Valid)
               [] req.sel = "range" -> RangeSeq(Max(1, req.a), Max(1, req.a) + req.b - 1)
               [] req.sel = "scan" ->
                    ComputeMissingIds(ix, Max(1, req.a), Min(req.b, maxId))
               [] OTHER -> <<>>
  IN SelectSeq(ids, InBound)

\* chunk (lines 130-134).
Chunk(arr, size) ==
  [k \in 1 .. ((Len(arr) + size - 1) \div size) |->
     SubSeq(arr, (k - 1) * size + 1, Min(k * size, Len(arr)))]

\* A task of the run: seen keeps, for the ids of patches, the state column of
\* the row that syncSLTP compared (line 273).
Queued(ids) ==
  [ids |-> ids, pc |-> "queued", missing |-> <<>>, present |-> <<>>,
   patches |-> <<>>, needFull |-> <<>>, seen |-> <<>>]

\* A task runs up to its first await.  full: syncFull sends getTradesFromList
\* (lines 229-232).  sltp and states: the ids are split into missing and
\* present, and the full sync of the missing ones is started first (lines
\* 247-261, 301-315).
StartBatch(ix, ids, mode, maxId) ==
  LET IsMissing(id) == id <= maxId /\ ~Exists(ix, id)
      IsPresent(id) == id <= maxId /\ Exists(ix, id)
      missing == SelectSeq(ids, IsMissing)
      present == SelectSeq(ids, IsPresent)
  IN
  IF mode = "full"
  THEN [Queued(ids) EXCEPT !.pc = "fetchFull", !.needFull = ids]
  ELSE [Queued(ids) EXCEPT
          !.missing = missing,
          !.present = present,
          !.pc = IF missing # <<>> THEN "fetchMissing"
                 ELSE IF present # <<>> THEN "fetchNarrow"
                 ELSE "done"]

SltpPatchIdsAll(ix, present) == present

\* syncSLTP, lines 265-284: the ids getSLTPFromList shows to differ from the row.
SltpPatchIds(ix, present) ==
  LET Differs(id) ==
        /\ id \in DOMAIN ix
        /\ \/ ledger[id].stopLoss # ix[id].stopLoss
           \/ ledger[id].takeProfit # ix[id].takeProfit
  IN SelectSeq(present, Differs)

\* What the header of sync.js describes (lines 8-9): a state patch unless the
\* trade is Closed or Cancelled.
StateActionPatchUnlessClosed(newState, prevState) ==
  IF newState = prevState THEN "none"
  ELSE IF newState \in {2, 3} THEN "full"
  ELSE "patch"

\* syncStates, lines 331-336: any state change asks for a full sync; nothing is
\* ever pushed to patches.
StateAction(newState, prevState) ==
  IF newState # prevState THEN "full" ELSE "none"

\* syncStates, lines 319-337.
StatesPatchIds(ix, present) ==
  LET Patch(id) ==
        /\ id \in DOMAIN ix
        /\ StateAction(ledger[id].state, ix[id].state) = "patch"
  IN SelectSeq(present, Patch)

StatesNeedFull(ix, present) ==
  LET Full(id) ==
        \/ id \notin DOMAIN ix
        \/ StateAction(ledger[id].state, ix[id].state) = "full"
  IN SelectSeq(present, Full)

\* The narrow read of a task has resolved and its loop over present has run
\* (lines 263-286, 317-343).
NarrowResult(ix, bt, mode) ==
  IF mode = "sltp"
  THEN LET p == SltpPatchIds(ix, bt.present) IN
       [bt EXCEPT !.patches = p,
                  !.seen = [id \in SeqToSet(p) |-> ix[id].state],
                  !.pc = IF p # <<>> THEN "patch" ELSE "done"]
  ELSE LET p == StatesPatchIds(ix, bt.present)
           f == StatesNeedFull(ix, bt.present)
       IN
       [bt EXCEPT !.patches = p,
                  !.needFull = f,
                  !.pc = IF p # <<>> THEN "patch"
                         ELSE IF f # <<>> THEN "fetchFull"
                         ELSE "done"]

BatchUpsertInsertOnly(ix, ids) ==
  [j \in (DOMAIN ix) \cup SeqToSet(ids) |->
     IF j \in DOMAIN ix THEN ix[j] ELSE TradeToPayload(ledger[j])]

BatchUpsertAdds(ix, ids) ==
  [j \in (DOMAIN ix) \cup SeqToSet(ids) |->
     IF j \notin SeqToSet(ids) THEN ix[j]
     ELSE IF j \notin DOMAIN ix THEN TradeToPayload(ledger[j])
     ELSE [TradeToPayload(ledger[j]) EXCEPT
             !.stopLoss = ix[j].stopLoss + TradeToPayload(ledger[j]).stopLoss]]

\* POST /trades/batchUpsert with the payloads of ids (write.routes.js lines
\* 131-182, db.js lines 138-169).
BatchUpsert(ix, ids) ==
  [j \in (DOMAIN ix) \cup SeqToSet(ids) |->
     IF j \in SeqToSet(ids) THEN TradeToPayload(ledger[j]) ELSE ix[j]]

\* POST /trades/batchPatchSLTP (write.routes.js lines 213-238, db.js lines
\* 195-201, 223-230).
BatchPatchSLTP(ix, ids) ==
  [j \in DOMAIN ix |->
     IF j \in SeqToSet(ids)
     THEN [ix[j] EXCEPT !.stopLoss = ledger[j].stopLoss,
                        !.takeProfit = ledger[j].takeProfit]
     ELSE ix[j]]

\* POST /trades/batchPatchStates (write.routes.js lines 184-211, db.js lines
\* 185-192, 214-221).
BatchPatchStates(ix, ids) ==
  [j \in DOMAIN ix |->
     IF j \in SeqToSet(ids)
     THEN [ix[j] EXCEPT !.state = ledger[j].state]
     ELSE ix[j]]

Bump(cnt, ids) ==
  [id \in DOMAIN cnt |-> IF id \in SeqToSet(ids) THEN cnt[id] + 1 ELSE cnt[id]]

\* Task b goes on as nb; when it has returned, pLimit starts the next queued
\* task, which runs up to its first await against the index ix.
Settle(b, nb, ix) ==
  LET bs == [batches EXCEPT ![b] = nb]
      queued == {k \in DOMAIN bs : bs[k].pc = "queued"}
  IN
  IF nb.pc = "done" /\ queued # {}
  THEN LET q == CHOOSE k \in queued : \A j \in queued : k <= j IN
       [bs EXCEPT ![q] = StartBatch(ix, bs[q].ids, request.mode, maxExistingId)]
  ELSE bs

\* Promise.all(tasks) resolves once every task has returned (lines 454-466).
RunAfter(bs) ==
  IF \A k \in DOMAIN bs : bs[k].pc = "done" THEN "done" ELSE "running"

syncFrame == <<now, walletVars, batchVars, matchVars, execVars, nextTradeID,
               ledger, request, index0, writeVars, proofVars, feedVars, listenVars>>

\* main() from the answer of nextTradeID() to the start of the tasks (lines
\* 386-452).
SyncMain ==
  /\ runPc = "start"
  /\ maxExistingId' = nextTradeID
  /\ IF nextTradeID = 0
     THEN runPc' = "exit0" /\ batches' = <<>>
     ELSE IF request.sel = "none"
     THEN runPc' = "usage" /\ batches' = <<>>
     ELSE LET ids == RequestIds(request, index, nextTradeID)
              chunks == Chunk(ids, BATCH_SIZE)
              bs == [k \in DOMAIN chunks |->
                       IF k <= RPC_CONCURRENCY
                       THEN StartBatch(index, chunks[k], request.mode, nextTradeID)
                       ELSE Queued(chunks[k])]
          IN /\ batches' = bs
             /\ runPc' = RunAfter(bs)
  /\ UNCHANGED <<index, fetched, upserted, sltpPatched, statePatchCalls>>
  /\ UNCHANGED syncFrame

\* nextTradeID() throws: main() rejects and the process exits (lines 468-471).
SyncMainFails ==
  /\ runPc = "start"
  /\ runPc' = "failed"
  /\ UNCHANGED <<index, maxExistingId, batches, fetched, upserted, sltpPatched,
                 statePatchCalls>>
  /\ UNCHANGED syncFrame

\* A ledger read of task b resolves: getTradesFromList (line 232), then the
\* batchUpsert request is sent (line 237); or getSLTPFromList (line 263) or
\* getTradeStatesFromList (line 317), then the rows are compared.
BatchRpcOk(b) ==
  LET bt == batches[b] IN
  /\ runPc = "running"
  /\ bt.pc \in {"fetchMissing", "fetchNarrow", "fetchFull"}
  /\ fetched' = CASE bt.pc = "fetchMissing" -> Bump(fetched, bt.missing)
                  [] bt.pc = "fetchFull" -> Bump(fetched, bt.needFull)
                  [] OTHER -> fetched
  /\ LET nb == CASE bt.pc = "fetchMissing" -> [bt EXCEPT !.pc = "upsertMissing"]
                 [] bt.pc = "fetchFull" -> [bt EXCEPT !.pc = "upsertFull"]
                 [] OTHER -> NarrowResult(index, bt, request.mode)
         bs == Settle(b, nb, index)
     IN /\ batches' = bs
        /\ runPc' = RunAfter(bs)
  /\ UNCHANGED <<index, maxExistingId, upserted, sltpPatched, statePatchCalls>>
  /\ UNCHANGED syncFrame

\* The write server applies the request of task b and answers; the task goes
\* on if the process is still there.  A request sent before the process exited
\* is applied all the same.
BatchHttpOk(b) ==
  LET bt == batches[b]
      states == request.mode = "states"
      ix == CASE bt.pc = "upsertMissing" -> BatchUpsert(index, bt.missing)
              [] bt.pc = "upsertFull" -> BatchUpsert(index, bt.needFull)
              [] OTHER -> IF states THEN BatchPatchStates(index, bt.patches)
                          ELSE BatchPatchSLTP(index, bt.patches)
      nb == CASE bt.pc = "upsertMissing" ->
                   [bt EXCEPT !.pc = IF bt.present = <<>> THEN "done"
                                     ELSE "fetchNarrow"]
              [] bt.pc = "upsertFull" -> [bt EXCEPT !.pc = "done"]
              [] OTHER ->
                   [bt EXCEPT !.pc = IF states /\ bt.needFull # <<>>
                                     THEN "fetchFull" ELSE "done"]
  IN
  /\ runPc \in {"running", "failed"}
  /\ bt.pc \in {"upsertMissing", "upsertFull", "patch"}
  /\ index' = ix
  /\ upserted' = CASE bt.pc = "upsertMissing" -> Bump(upserted, bt.missing)
                   [] bt.pc = "upsertFull" -> Bump(upserted, bt.needFull)
                   [] OTHER -> upserted
  /\ sltpPatched' = IF bt.pc = "patch" /\ ~states
                    THEN Bump(sltpPatched, bt.patches) ELSE sltpPatched
  /\ statePatchCalls' = IF bt.pc = "patch" /\ states
                        THEN statePatchCalls + 1 ELSE statePatchCalls
  /\ IF runPc = "running"
     THEN LET bs == Settle(b, nb, ix) IN
          /\ batches' = bs
          /\ runPc' = RunAfter(bs)
     ELSE /\ batches' = [batches EXCEPT ![b] = [bt EXCEPT !.pc = "dead"]]
          /\ UNCHANGED runPc
  /\ UNCHANGED <<maxExistingId, fetched>>
  /\ UNCHANGED syncFrame

\* A ledger read or a write request of task b throws: Promise.all rejects,
\* main() rejects and the process exits (lines 454-471).
BatchFails(b) ==
  /\ runPc = "running"
  /\ batches[b].pc \in {"fetchMissing", "fetchNarrow", "fetchFull",
                        "upsertMissing", "upsertFull", "patch"}
  /\ batches' = [batches EXCEPT ![b] = [@ EXCEPT !.pc = "failed"]]
  /\ runPc' = "failed"
  /\ UNCHANGED <<index, maxExistingId, fetched, upserted, sltpPatched,
                 statePatchCalls>>
  /\ UNCHANGED syncFrame

\* ---------------------------------------------------------------------------
\* The write server (write.routes.js over db.js).
\* ---------------------------------------------------------------------------

UpsertLimit == 2         \* items.length > 2000 (line 137), scaled
PatchLimit == 2          \* items.length > 5000 (lines 190, 219), scaled

\* The ids of the requests.
WriteIds == {1, 2}

\* SQL NULL in a column that holds numbers.
NULL == 0 - 1

\* res.status(..).json(..): the status, the error text and, for the batch
\* routes, the number in upserted / updated.
NoResponse == [status |-> 0, error |-> "", count |-> 0]
Ok(count) == [status |-> 200, error |-> "", count |-> count]
Err(status, error) == [status |-> status, error |-> error, count |-> 0]

WriteInit == response = NoResponse

\* A row of trades with the columns the write routes look at; the other
\* columns keep one value.
WriteRow(state, closePrice, closedLotSize, stopLoss) ==
  [assetId |-> 0, isLong |-> 1, isLimit |-> 0, openPrice |-> 1, state |-> state,
   stopLoss |-> stopLoss, takeProfit |-> 0, closePrice |-> closePrice,
   lotSize |-> 1, closedLotSize |-> closedLotSize]

\* The body of PUT /trade/:id: traderOk says whether trader starts with 0x and
\* has 10 characters or more; closePrice, closedLotSize and stopLoss are 0 when
\* absent, lotSize is null when absent (lines 64-69).
PutBodies ==
  [traderOk : BOOLEAN, state : TradeStates, closePrice : {0, 1},
   lotSize : {NULL, 1}, closedLotSize : {0, 1}, stopLoss : {0, 1}]

PayloadRow(b) ==
  [WriteRow(b.state, b.closePrice, b.closedLotSize, b.stopLoss)
     EXCEPT !.lotSize = b.lotSize]

\* What a route does to the table ix and what it answers.
Result(ix, res) == [ix |-> ix, res |-> res]

CloseError == "state=2 requires closePrice != 0"

\* PUT /trade/:id (lines 46-89) over tx.upsertTrade (db.js lines 138-169,
\* 204-207).
PutResult(ix, id, b) ==
  IF ~b.traderOk
  THEN Result(ix, Err(400, "Invalid trader address"))
  ELSE IF b.state = 2 /\ b.closePrice = 0
  THEN Result(ix, Err(400, CloseError))
  ELSE Result(UpsertRow(ix, id, PayloadRow(b)), Ok(0))

\* The columns a PATCH body may carry, and the bodies: a body is a function on
\* the columns it carries (an absent or null column is not in its domain).
PatchFields == {"state", "closePrice", "closedLotSize", "stopLoss"}
PatchValues(f) == IF f = "state" THEN TradeStates ELSE {0, 1}
PatchBodies ==
  {p \in UNION {[F -> TradeStates] : F \in SUBSET PatchFields} :
     \A f \in DOMAIN p : p[f] \in PatchValues(f)}

\* UPDATE .. SET col = COALESCE(@col, col) for the columns of cols (db.js lines
\* 172-201): a column the patch does not carry, or carries as null, stays.
Coalesce(row, p, cols) ==
  [f \in DOMAIN row |->
     IF f \in cols /\ f \in DOMAIN p /\ p[f] # NULL THEN p[f] ELSE row[f]]

WithCloseRuleStoredIgnored(existing, p) ==
  IF "state" \in DOMAIN p /\ p["state"] = 2
  THEN IF "closePrice" \notin DOMAIN p \/ p["closePrice"] = 0
       THEN <<"reject", p>>
       ELSE <<"ok", p>>
  ELSE <<"ok", p>>

\* lines 113-121: the patch after the state = 2 rule, or "reject".
WithCloseRule(existing, p) ==
  IF "state" \in DOMAIN p /\ p["state"] = 2
  THEN LET close == IF "closePrice" \in DOMAIN p THEN p["closePrice"]
                    ELSE existing.closePrice
       IN IF close = 0 THEN <<"reject", p>>
          ELSE IF "closedLotSize" \notin DOMAIN p
          THEN <<"ok", [f \in (DOMAIN p) \cup {"closedLotSize"} |->
                          IF f = "closedLotSize" THEN existing.lotSize ELSE p[f]]>>
          ELSE <<"ok", p>>
  ELSE <<"ok", p>>

\* PATCH /trade/:id (lines 95-129) over tx.patchTrade (db.js lines 172-183,
\* 209-213).
PatchResult(ix, id, p) ==
  IF id \notin DOMAIN ix
  THEN Result(ix, Err(404, "Trade not found"))
  ELSE LET r == WithCloseRule(ix[id], p) IN
       IF r[1] = "reject"
       THEN Result(ix, Err(400, CloseError))
       ELSE Result([ix EXCEPT ![id] = Coalesce(@, r[2], PatchFields)], Ok(0))

\* The item lists of a batch request over the items S: up to one item more
\* than the route's limit.
ItemLists(S, limit) == UNION {[1 .. n -> S] : n \in 0 .. (limit + 1)}

BatchErrorNoLimit(items, limit, what) ==
  IF Len(items) = 0 THEN "Body must include " \o what \o ": []"
  ELSE IF \E k \in DOMAIN items : ~items[k].valid THEN "Invalid item"
  ELSE ""

\* The tests of a batch route before its transaction: the array test, the
\* limit, and the map over the items, which throws at the first item whose
\* fields do not pass toInt, toBoolInt or the trader test (lines 133-165,
\* 186-203, 215-230).  "" when the batch goes on to the transaction.
BatchError(items, limit, what) ==
  IF Len(items) = 0 THEN "Body must include " \o what \o ": []"
  ELSE IF Len(items) > limit THEN "Too many " \o what \o " in one batch"
  ELSE IF \E k \in DOMAIN items : ~items[k].valid THEN "Invalid item"
  ELSE ""

\* The items of trades: [] for batchUpsert; batchUpsert has no closePrice test.
UpsertItems ==
  {[id |-> id, valid |-> v[1], state |-> v[2], closePrice |-> v[3]] :
     id \in WriteIds, v \in {<<TRUE, 1, 0>>, <<TRUE, 2, 1>>, <<TRUE, 2, 0>>,
                             <<FALSE, 0, 0>>}}

\* runBatch (lines 168-172): stmt.upsertTrade for every payload, in order, in
\* one transaction.
RECURSIVE RunBatch(_, _)
RunBatch(ix, ps) ==
  IF ps = <<>> THEN ix
  ELSE RunBatch(UpsertRow(ix, Head(ps).id,
                          WriteRow(Head(ps).state, Head(ps).closePrice, 0, 0)),
                Tail(ps))

\* POST /trades/batchUpsert (lines 131-182).
BatchUpsertResult(ix, items) ==
  LET err == BatchError(items, UpsertLimit, "trades") IN
  IF err # "" THEN Result(ix, Err(400, err))
  ELSE Result(RunBatch(ix, items), Ok(Len(items)))

\* The items of patches: [] for batchPatchStates and batchPatchSLTP: an id,
\* whether the fields pass toInt, and the columns carried.
StateItems ==
  {[id |-> 1, valid |-> TRUE, patch |-> [state |-> 1]],
   [id |-> 2, valid |-> TRUE, patch |-> [state |-> 2]],
   [id |-> 2, valid |-> TRUE, patch |-> [state |-> 2, closePrice |-> 1]],
   [id |-> 1, valid |-> FALSE, patch |-> [state |-> 1]]}
SLTPItems ==
  {[id |-> 1, valid |-> TRUE, patch |-> [stopLoss |-> 1]],
   [id |-> 2, valid |-> TRUE, patch |-> [stopLoss |-> 1]],
   [id |-> 2, valid |-> TRUE, patch |-> [stopLoss |-> 0]],
   [id |-> 1, valid |-> FALSE, patch |-> [stopLoss |-> 1]]}

StateCols == {"state", "closePrice", "closedLotSize"}
SLTPCols == {"stopLoss", "takeProfit"}

\* info.changes ? 1 : 0 (db.js lines 219, 228): the UPDATE .. WHERE id = @id
\* changes the row it finds, whatever the values.
Changes(ix, p, cols) == IF p.id \in DOMAIN ix THEN 1 ELSE 0

\* tx.batchPatchStates and tx.batchPatchSLTP (db.js lines 215-231): the patch
\* statement for every item in order, in one transaction, counting the items
\* whose statement changed a row.
RECURSIVE RunPatches(_, _, _)
RunPatches(ix, ps, cols) ==
  IF ps = <<>> THEN <<ix, 0>>
  ELSE LET p == Head(ps)
           ix1 == IF p.id \in DOMAIN ix
                  THEN [ix EXCEPT ![p.id] = Coalesce(@, p.patch, cols)]
                  ELSE ix
           rest == RunPatches(ix1, Tail(ps), cols)
       IN <<rest[1], rest[2] + Changes(ix, p, cols)>>

\* POST /trades/batchPatchStates (lines 184-211) and POST /trades/batchPatchSLTP
\* (lines 213-238).
BatchPatchResult(ix, items, cols) ==
  LET err == BatchError(items, PatchLimit, "patches") IN
  IF err # "" THEN Result(ix, Err(400, err))
  ELSE LET r == RunPatches(ix, items, cols) IN Result(r[1], Ok(r[2]))

\* The write server handles one request: the table and the response are the
\* route's result.
Handle(r) ==
  /\ index' = r.ix
  /\ response' = r.res
  /\ UNCHANGED <<now, walletVars, batchVars, matchVars, execVars, syncVars,
                 proofVars, feedVars, listenVars>>

PutTrade(id, b) == Handle(PutResult(index, id, b))
PatchTrade(id, p) == Handle(PatchResult(index, id, p))
PostBatchUpsert(items) == Handle(BatchUpsertResult(index, items))
PostBatchPatchStates(items) == Handle(BatchPatchResult(index, items, StateCols))
PostBatchPatchSLTP(items) == Handle(BatchPatchResult(index, items, SLTPCols))

\* ---------------------------------------------------------------------------
\* The proof fetcher (executor/proofClient.js).
\* ---------------------------------------------------------------------------

PROOF_TTL_MS == 2        \* now - hit.ts < 1000 (line 99), scaled
MaxFetches == 2          \* fetchProof calls in a run of the model
ProofHorizon == 2        \* the clock runs to StartTime + ProofHorizon

\* The arrays fetchProof is called with: the same pair indexes in two orders.
PairInputs == {<<1, 2>>, <<2, 1>>}

\* The five candidates of getProof in the order of the array (lines 37-63),
\* each named by what it adds to the base address.
Endpoints ==
  <<"", "/rpc", "/v2/pull/get_proof", "/pull-service/get_proof", "/get_proof">>

\* [...pairs].sort((a, b) => a - b)
RECURSIVE SortedInsert(_, _)
SortedInsert(x, sorted) ==
  IF sorted = <<>> THEN <<x>>
  ELSE IF x <= Head(sorted) THEN <<x>> \o sorted
  ELSE <<Head(sorted)>> \o SortedInsert(x, Tail(sorted))

\* makeKey (lines 83-85): the indexes in ascending order, joined; two arrays
\* have the same key when they have the same sorted sequence.
RECURSIVE MakeKey(_)
MakeKey(pairs) ==
  IF pairs = <<>> THEN <<>>
  ELSE SortedInsert(Head(pairs), MakeKey(Tail(pairs)))

\* The proof bytes of an answer: made is the time the service answered,
\* prefixed whether the string starts with 0x.
NoProof == [made |-> 0, prefixed |-> FALSE]

\* normalizeProof (lines 87-90).
NormalizeProof(pr) == [pr EXCEPT !.prefixed = TRUE]

ProofInit ==
  /\ proofCache = <<>>
  /\ fetches = <<>>

CacheYoungInclusive(ts, t) == t - ts <= PROOF_TTL_MS

\* line 99: now - hit.ts < 1000
CacheYoung(ts, t) == t - ts < PROOF_TTL_MS

\* lastErr names the candidate whose error it is; "none" while undefined
\* (line 65).
NoErr == "none"

LastErrFirst(prev, new) == IF prev = NoErr THEN new ELSE prev

\* lines 71, 73: lastErr = ..., in every pass that does not return.
LastErr(prev, new) == new

proofFrame ==
  <<walletVars, batchVars, indexVars, matchVars, execVars, syncVars, writeVars,
    feedVars, listenVars>>

\* fetchProof(pairs) is called (lines 95-101, to the first _post of getProof):
\* a young cache entry is returned, otherwise the first candidate is posted.
\* hitAge is the age of the key's cache entry at the call, -1 without entry.
FetchProof(pairs) ==
  LET key == MakeKey(pairs)
      hit == key \in DOMAIN proofCache
      call == [pairs |-> pairs, t0 |-> now,
               hitAge |-> IF hit THEN now - proofCache[key].ts ELSE NULL,
               cached |-> FALSE, pc |-> "post", tried |-> <<Endpoints[1]>>,
               lastErr |-> NoErr, result |-> NoProof]
  IN
  /\ Len(fetches) < MaxFetches
  /\ fetches' = Append(fetches,
       IF hit /\ CacheYoung(proofCache[key].ts, now)
       THEN [call EXCEPT !.cached = TRUE, !.pc = "returned", !.tried = <<>>,
                         !.result = proofCache[key].proof]
       ELSE call)
  /\ UNCHANGED <<now, proofCache>>
  /\ UNCHANGED proofFrame

\* The candidate posted last answers with proof bytes (lines 68-70): getProof
\* returns them, fetchProof normalizes and caches them under the time read at
\* line 97, and returns (lines 101-104).
PostReturnsProof(f, prefixed) ==
  LET proof == NormalizeProof([made |-> now, prefixed |-> prefixed]) IN
  /\ f \in 1 .. Len(fetches)
  /\ fetches[f].pc = "post"
  /\ fetches' = [fetches EXCEPT ![f] =
                   [@ EXCEPT !.pc = "returned", !.result = proof]]
  /\ proofCache' = UpsertRow(proofCache, MakeKey(fetches[f].pairs),
                             [proof |-> proof, ts |-> fetches[f].t0])
  /\ UNCHANGED now
  /\ UNCHANGED proofFrame

\* The candidate posted last answers without proof bytes (line 71), or its
\* _post throws on a status, a body that is not JSON or the abort of its
\* timeout (lines 72-74): the next candidate is posted, and after the last
\* one getProof throws lastErr (line 76) and fetchProof rejects.
PostFails(f) ==
  LET n == Len(fetches[f].tried)
      err == LastErr(fetches[f].lastErr, Endpoints[n])
  IN
  /\ f \in 1 .. Len(fetches)
  /\ fetches[f].pc = "post"
  /\ fetches' = [fetches EXCEPT ![f] =
       IF n < Len(Endpoints)
       THEN [@ EXCEPT !.lastErr = err, !.tried = Append(@, Endpoints[n + 1])]
       ELSE [@ EXCEPT !.lastErr = err, !.pc = "failed"]]
  /\ UNCHANGED <<now, proofCache>>
  /\ UNCHANGED proofFrame

ProofTick ==
  /\ now < StartTime + ProofHorizon
  /\ now' = now + 1
  /\ UNCHANGED proofVars
  /\ UNCHANGED proofFrame

\* The trade ids the ledger's TradeEvents carry, and the listener before any
\* event (listener lines 103-107).
ListenIds == {1, 2}

ListenInit ==
  /\ recently = [id \in ListenIds |-> 0]
  /\ events = <<>>

\* ---------------------------------------------------------------------------
\* The price feed: decimalToE6 and the message handler (executor.multi.js).
\* A string is the sequence of its characters.
\* ---------------------------------------------------------------------------

E6 == 1000000            \* 1000000n (line 181)
MaxIntDigits == 2        \* digits before the point in the decimals converted
MaxFracDigits == 7       \* digits after the point in the decimals converted
MaxTicks == 2            \* ticks in the payload of one message
MaxPriceLen == 3         \* characters of a tick's price

DigitChars == <<"0", "1", "2", "3", "4", "5", "6", "7", "8", "9">>
IsDigit(c) == \E d \in 1 .. 10 : DigitChars[d] = c
DigitVal(c) == (CHOOSE d \in 1 .. 10 : DigitChars[d] = c) - 1
DigitChar(d) == DigitChars[d + 1]

\* String.prototype.trim, for the space.
RECURSIVE TrimLeft(_)
TrimLeft(s) == IF s # <<>> /\ Head(s) = " " THEN TrimLeft(Tail(s)) ELSE s
RECURSIVE TrimRight(_)
TrimRight(s) ==
  IF s # <<>> /\ s[Len(s)] = " " THEN TrimRight(SubSeq(s, 1, Len(s) - 1)) ELSE s
Trim(s) == TrimRight(TrimLeft(s))

\* t.split("."): parts[0] is what stands before the first point, parts[1]
\* what stands between the first point and the second (undefined without a
\* point, and then "" at line 175).
RECURSIVE BeforeDot(_)
BeforeDot(s) ==
  IF s = <<>> \/ Head(s) = "." THEN <<>> ELSE <<Head(s)>> \o BeforeDot(Tail(s))
RECURSIVE AfterDot(_)
AfterDot(s) ==
  IF s = <<>> THEN <<>>
  ELSE IF Head(s) = "." THEN Tail(s) ELSE AfterDot(Tail(s))

\* replace(/^0+(?=\d)/, ""): the leading zeros that a digit follows go.
RECURSIVE StripZeros(_)
StripZeros(s) ==
  IF Len(s) >= 2 /\ s[1] = "0" /\ IsDigit(s[2]) THEN StripZeros(Tail(s)) ELSE s

\* (fracRaw + "0000000").slice(0, 7)
Pad7(frac) == SubSeq(frac \o <<"0", "0", "0", "0", "0", "0", "0">>, 1, 7)

RECURSIVE DigitsValue(_)
DigitsValue(s) ==
  IF s = <<>> THEN 0 ELSE DigitsValue(SubSeq(s, 1, Len(s) - 1)) * 10 + DigitVal(s[Len(s)])

AllDigits(s) == \A i \in 1 .. Len(s) : IsDigit(s[i])

\* BigInt(string): white space around the text is dropped, the empty text is
\* 0n, digits with one sign before them are their value, and every other
\* text throws a SyntaxError.
ParseBigInt(str) ==
  LET t == Trim(str) IN
  IF t = <<>> THEN [ok |-> TRUE, value |-> 0]
  ELSE IF AllDigits(t) THEN [ok |-> TRUE, value |-> DigitsValue(t)]
  ELSE IF Len(t) >= 2 /\ Head(t) \in {"-", "+"} /\ AllDigits(Tail(t))
  THEN [ok |-> TRUE,
        value |-> IF Head(t) = "-" THEN 0 - DigitsValue(Tail(t))
                  ELSE DigitsValue(Tail(t))]
  ELSE [ok |-> FALSE, value |-> 0]

\* Number(fracPadded[6]) >= 5 (lines 179, 182): Number of a character that is
\* no digit is NaN, or 0 for the space, and neither is >= 5.
SeventhRoundsUpFromSix(c) == IsDigit(c) /\ DigitVal(c) >= 6
SeventhRoundsUp(c) == IsDigit(c) /\ DigitVal(c) >= 5

\* A price as the handler finds it in a tick: absent (null or undefined), or a
\* text.  A number is the text String() makes of it.
Absent == [given |-> FALSE, text |-> <<>>]
Text(s) == [given |-> TRUE, text |-> s]

\* What a call returns: null, a number, or nothing because it threw.
Returned(kind, value) == [kind |-> kind, value |-> value]

\* decimalToE6 (lines 163-186).
DecimalToE6(value) ==
  IF ~value.given THEN Returned("null", 0)
  ELSE
  LET s == Trim(value.text) IN
  IF s = <<>> THEN Returned("null", 0)
  ELSE
  LET neg == Head(s) = "-"
      t == IF neg THEN Tail(s) ELSE s
      part0 == BeforeDot(t)
      intPart == IF part0 # <<>> THEN StripZeros(part0) ELSE <<"0">>
      fracPadded == Pad7(BeforeDot(AfterDot(t)))
      int == ParseBigInt(intPart)
      frac == ParseBigInt(SubSeq(fracPadded, 1, 6))
      bi == int.value * E6 + frac.value
               + (IF SeventhRoundsUp(fracPadded[7]) THEN 1 ELSE 0)
  IN IF ~int.ok \/ ~frac.ok THEN Returned("throws", 0)
     ELSE Returned("number", IF neg THEN 0 - bi ELSE bi)

\* The digits of a natural number.
RECURSIVE DigitsOf(_)
DigitsOf(n) ==
  IF n < 10 THEN <<DigitChar(n)>> ELSE DigitsOf(n \div 10) \o <<DigitChar(n % 10)>>

\* n as a text of d digits, with zeros in front.
RECURSIVE ZeroPadded(_, _)
ZeroPadded(n, d) ==
  IF d = 0 THEN <<>> ELSE ZeroPadded(n \div 10, d - 1) \o <<DigitChar(n % 10)>>

\* The decimal of a fixed-point number: its sign, the units, the point and
\* six fractional digits.
FormatE6(n) ==
  LET a == IF n < 0 THEN 0 - n ELSE n IN
  (IF n < 0 THEN <<"-">> ELSE <<>>) \o DigitsOf(a \div E6) \o <<".">>
    \o ZeroPadded(a % E6, 6)

\* The decimals converted: a sign or none, up to MaxIntDigits digits, and a
\* point with up to MaxFracDigits digits or none.
DigitTexts(alphabet, lo, hi) == UNION {[1 .. k -> alphabet] : k \in lo .. hi}
FracTexts ==
  DigitTexts({"0", "9"}, 0, 6)
    \cup {six \o more : six \in DigitTexts({"0", "9"}, 6, 6),
                        more \in DigitTexts({"0", "4", "5", "9"}, 1, MaxFracDigits - 6)}
Decimals ==
  {(IF neg THEN <<"-">> ELSE <<>>) \o int \o (IF frac = <<>> THEN <<>> ELSE <<".">> \o frac) :
     neg \in BOOLEAN, int \in DigitTexts({"0", "7"}, 0, MaxIntDigits),
     frac \in FracTexts} \ {<<>>, <<"-">>}

NoScaled == [e6 |-> Returned("none", 0), back |-> <<>>, again |-> Returned("none", 0)]

ConvertInit ==
  /\ decimal = Absent
  /\ scaled = NoScaled

\* decimalToE6(decimal) is called; its result is formatted and converted again.
Convert ==
  /\ scaled = NoScaled
  /\ LET r == DecimalToE6(decimal)
         back == IF r.kind = "number" THEN FormatE6(r.value) ELSE <<>>
     IN scaled' = [e6 |-> r, back |-> back,
                   again |-> IF r.kind = "number" THEN DecimalToE6(Text(back))
                             ELSE Returned("none", 0)]
  /\ UNCHANGED <<decimal, feed, handled>>
  /\ UNCHANGED <<now, walletVars, batchVars, indexVars, matchVars, execVars,
                 syncVars, writeVars, proofVars, listenVars>>

InitConvert ==
  /\ now = StartTime
  /\ WalletInit
  /\ BatchInit
  /\ IndexInit
  /\ MatchInit
  /\ ExecInit
  /\ SyncIdle
  /\ WriteInit
  /\ ProofInit
  /\ feed = <<>>
  /\ handled = <<>>
  /\ decimal \in {Text(d) : d \in Decimals}
  /\ scaled = NoScaled
  /\ ListenInit

NextConvert == Convert

SpecConvert == InitConvert /\ [][NextConvert]_vars

\* pickMarketFromTick (lines 188-192).
PickMarketFromTick(tick) ==
  IF tick.currentPrice.given THEN tick.currentPrice
  ELSE IF tick.close.given THEN tick.close
  ELSE Absent

\* The ticks of a payload: no pair, a pair REVERSE_MAP does not hold, or one it
\* holds; a price that is absent or a text of up to MaxPriceLen characters.
PriceTexts == UNION {[1 .. k -> {"1", "e", " "}] : k \in 0 .. MaxPriceLen}
Ticks ==
  [pair : {"", "other", "btc_usdt"},
   currentPrice : {Absent} \cup {Text(t) : t \in PriceTexts},
   close : {Absent, Text(<<"1">>)}]
Payloads == UNION {[1 .. k -> Ticks] : k \in 1 .. MaxTicks}

FeedInit ==
  /\ feed = <<>>
  /\ handled = <<>>
  /\ ConvertInit

Did(did, market) == [did |-> did, market |-> market]

feedFrame ==
  <<now, walletVars, batchVars, indexVars, matchVars, execVars, syncVars,
    writeVars, proofVars, decimal, scaled, listenVars>>

\* ws.on("message") up to the loop (lines 336-343): a message of the data
\* feed with a payload.
Receive ==
  /\ feed = <<>>
  /\ \E payload \in Payloads : feed' = payload
  /\ handled' = <<>>
  /\ UNCHANGED feedFrame

\* An exception that leaves the handler ends it: the ticks behind are not read.
Threw == \E i \in 1 .. Len(handled) : handled[i].did = "threw"

\* The handler's loop body for the next tick (lines 345-384); queryOk is
\* whether both match queries answer.
HandleTick(queryOk) ==
  /\ Len(handled) < Len(feed)
  /\ ~Threw
  /\ LET tick == feed[Len(handled) + 1]
         marketE6 == DecimalToE6(PickMarketFromTick(tick))
         did == IF tick.pair = "" THEN Did("continue", 0)
                ELSE IF tick.pair = "other" THEN Did("continue", 0)
                ELSE IF marketE6.kind = "throws" THEN Did("threw", 0)
                ELSE IF marketE6.kind = "null" THEN Did("continue", 0)
                ELSE IF queryOk THEN Did("queried", marketE6.value)
                ELSE Did("queryFailed", marketE6.value)
     IN handled' = Append(handled, did)
  /\ UNCHANGED feed
  /\ UNCHANGED feedFrame

InitFeed ==
  /\ now = StartTime
  /\ WalletInit
  /\ BatchInit
  /\ IndexInit
  /\ MatchInit
  /\ ExecInit
  /\ SyncIdle
  /\ WriteInit
  /\ ProofInit
  /\ FeedInit
  /\ ListenInit

TickAnswered == HandleTick(TRUE)
TickUnanswered == HandleTick(FALSE)

NextFeed ==
  \/ Receive
  \/ TickAnswered
  \/ TickUnanswered

SpecFeed == InitFeed /\ [][NextFeed]_vars

\* Another sync.js process, such as the one the executor's resync batcher
\* spawns with --mode full --ids (part_001 lines 122-126), has its batchUpsert
\* for id applied by the write server (lines 229-243).
OtherFullUpsert(id) ==
  /\ runPc = "running"
  /\ id \in DOMAIN ledger
  /\ index' = BatchUpsert(index, <<id>>)
  /\ UNCHANGED <<runPc, maxExistingId, batches, fetched, upserted, sltpPatched,
                 statePatchCalls>>
  /\ UNCHANGED syncFrame

InitWallet ==
  /\ now = StartTime
  /\ WalletInit
  /\ BatchInit
  /\ IndexInit
  /\ MatchInit
  /\ ExecInit
  /\ WriteInit
  /\ ProofInit
  /\ FeedInit
  /\ ListenInit
  /\ SyncIdle

NextWallet ==
  \/ \E c \in Callers : Acquire(c)
  \/ \E c \in Callers : WakeUp(c)
  \/ WalletTick

SpecWallet == InitWallet /\ [][NextWallet]_vars

InitBatch ==
  /\ now = StartTime
  /\ WalletInit
  /\ BatchInit
  /\ IndexInit
  /\ MatchInit
  /\ ExecInit
  /\ WriteInit
  /\ ProofInit
  /\ FeedInit
  /\ ListenInit
  /\ SyncIdle

nonBatchVars == <<now, walletVars, indexVars, matchVars, execVars, syncVars,
                  writeVars, proofVars, feedVars, listenVars>>

BatchEnqueue ==
  /\ enqCalls < MaxEnqueues
  /\ \E x \in EnqueueInputs : Enqueue(x)
  /\ UNCHANGED nonBatchVars

BatchTimerFire == TimerFire /\ UNCHANGED nonBatchVars

BatchDirectFlush == DirectFlush /\ UNCHANGED nonBatchVars

BatchSyncExit ==
  /\ \E k \in 1 .. Len(active) : SyncExit(k)
  /\ UNCHANGED nonBatchVars

NextBatch ==
  \/ BatchEnqueue
  \/ BatchTimerFire
  \/ BatchDirectFlush
  \/ BatchSyncExit

SpecBatch == InitBatch /\ [][NextBatch]_vars

\* Timers fire, and (the assumption of C5) every spawned sync run terminates.
SpecBatchFair ==
  /\ SpecBatch
  /\ WF_vars(BatchTimerFire)
  /\ WF_vars(BatchSyncExit)

\* ---------------------------------------------------------------------------
\* The ledger-event listener: core.on("TradeEvent") over its resync batcher.
\* ---------------------------------------------------------------------------
LISTEN_DEDUP_MS == 2     \* DEDUP_MS = 10_000 (line 105), scaled
MaxEvents == 3           \* TradeEvents received in a run of the model
ListenHorizon == 3       \* the clock ticks up to StartTime + ListenHorizon

\* line 115: if (now - last < DEDUP_MS) return;  with last = get(tradeId) || 0
DebouncedNever(last, t) == FALSE
Debounced(last, t) == t - last < LISTEN_DEDUP_MS

listenFrame ==
  <<walletVars, indexVars, matchVars, execVars, syncVars, writeVars, proofVars,
    feedVars>>

\* The handler of TradeEvent(tradeId, code) (lines 109-125): an event inside
\* the debounce window of its trade returns; any other is recorded and its id
\* enqueued.  Each event is logged with the number of runs spawned before it.
TradeEvent(id) ==
  /\ Len(events) < MaxEvents
  /\ IF Debounced(recently[id], now)
     THEN /\ events' = Append(events, [tradeId |-> id, t |-> now, enqueued |-> FALSE,
                                       runsBefore |-> Len(runs)])
          /\ UNCHANGED <<recently, batchVars>>
     ELSE /\ recently' = [recently EXCEPT ![id] = now]
          /\ events' = Append(events, [tradeId |-> id, t |-> now, enqueued |-> TRUE,
                                       runsBefore |-> Len(runs)])
          /\ Enqueue([finite |-> TRUE, value |-> id])
          /\ UNCHANGED <<inFlight, active, runs, fires, directCalls>>
  /\ UNCHANGED now
  /\ UNCHANGED listenFrame

ListenEvent == \E id \in ListenIds : TradeEvent(id)

ListenTimerFire == TimerFire /\ UNCHANGED <<now, listenVars, listenFrame>>

ListenSyncExit ==
  /\ \E k \in 1 .. Len(active) : SyncExit(k)
  /\ UNCHANGED <<now, listenVars, listenFrame>>

ListenTick ==
  /\ now < StartTime + ListenHorizon
  /\ now' = now + 1
  /\ UNCHANGED <<batchVars, listenVars, listenFrame>>

InitListen ==
  /\ now = StartTime
  /\ WalletInit
  /\ BatchInit
  /\ IndexInit
  /\ MatchInit
  /\ ExecInit
  /\ WriteInit
  /\ ProofInit
  /\ FeedInit
  /\ ListenInit
  /\ SyncIdle

NextListen ==
  \/ ListenEvent
  \/ ListenTimerFire
  \/ ListenSyncExit
  \/ ListenTick

SpecListen == InitListen /\ [][NextListen]_vars

nonMatchVars == <<now, walletVars, batchVars, execVars, syncVars, writeVars, proofVars, feedVars, listenVars>>

\* Every index over MatchIds: each is what a sequence of upserts leaves.
IndexStates ==
  UNION {[S -> Rows] : S \in SUBSET MatchIds}

InitMatch ==
  /\ now = StartTime
  /\ WalletInit
  /\ BatchInit
  /\ index \in IndexStates
  /\ MatchInit
  /\ ExecInit
  /\ WriteInit
  /\ ProofInit
  /\ FeedInit
  /\ ListenInit
  /\ SyncIdle

\* One request per behaviour: the handlers keep no state of their own, so a
\* second request against the same index reaches nothing new.
MatchEntry ==
  /\ query.kind = "none"
  /\ \E a \in AssetIds, m \in Markets : GetMatchEntry(a, m)
  /\ UNCHANGED nonMatchVars

MatchExits ==
  /\ query.kind = "none"
  /\ \E a \in AssetIds, m \in Markets : GetMatchExits(a, m)
  /\ UNCHANGED nonMatchVars

NextMatch ==
  \/ MatchEntry
  \/ MatchExits

SpecMatch == InitMatch /\ [][NextMatch]_vars

InitExec ==
  /\ now = StartTime
  /\ WalletInit
  /\ BatchInit
  /\ IndexInit
  /\ MatchInit
  /\ ExecInit
  /\ WriteInit
  /\ ProofInit
  /\ FeedInit
  /\ ListenInit
  /\ SyncIdle

ExecCall == \E kind \in Kinds, id \in ExecIds : Dispatch(kind, id)

ExecLockedHttpOk == \E a \in 1 .. Len(attempts), v \in Capitals : LockedHttpOk(a, v)

ExecFreeRpcOk == \E a \in 1 .. Len(attempts), f \in Capitals : FreeRpcOk(a, f)

ExecAdmissionReadFails == \E a \in 1 .. Len(attempts) : AdmissionReadFails(a)

ExecWakeUp == \E a \in 1 .. Len(attempts) : ExecWake(a)

ExecOk == \E a \in 1 .. Len(attempts) : ExecStepOk(a)

ExecFails == \E a \in 1 .. Len(attempts) : ExecStepFails(a)

NextExec ==
  \/ ExecCall
  \/ ExecLockedHttpOk
  \/ ExecFreeRpcOk
  \/ ExecAdmissionReadFails
  \/ ExecWakeUp
  \/ ExecOk
  \/ ExecFails
  \/ ExecTick
  \/ ExecSleep

SpecExec == InitExec /\ [][NextExec]_vars

\* The executor with answers that may take longer than a wait for a wallet.
NextExecSlow ==
  \/ NextExec
  \/ ExecSleepPending

SpecExecSlow == InitExec /\ [][NextExecSlow]_vars

\* The executor next to an index that holds the rows of its trades and to a
\* reconciliation that repairs them.
InitAdmission ==
  /\ now = StartTime
  /\ WalletInit
  /\ BatchInit
  /\ index \in [ExecIds -> {OrderRow(v) : v \in Capitals}]
  /\ MatchInit
  /\ ExecInit
  /\ WriteInit
  /\ ProofInit
  /\ FeedInit
  /\ ListenInit
  /\ SyncIdle

ExecLockedHttpFromIndex == \E a \in 1 .. Len(attempts) : LockedHttpFromIndex(a)
ExecReconcile == \E id \in ExecIds, v \in Capitals : Reconcile(id, v)

NextAdmission ==
  \/ ExecCall
  \/ ExecLockedHttpFromIndex
  \/ ExecFreeRpcOk
  \/ ExecAdmissionReadFails
  \/ ExecWakeUp
  \/ ExecOk
  \/ ExecFails
  \/ ExecTick
  \/ ExecSleep
  \/ ExecReconcile

SpecAdmission == InitAdmission /\ [][NextAdmission]_vars

\* A run starts against any ledger holding the trades SyncIds, or an empty one, and
\* any index holding rows for some of the ledger's ids.
InitSync ==
  /\ now = StartTime
  /\ WalletInit
  /\ BatchInit
  /\ MatchInit
  /\ ExecInit
  /\ WriteInit
  /\ ProofInit
  /\ FeedInit
  /\ ListenInit
  /\ nextTradeID \in {0, Cardinality(SyncIds)}
  /\ ledger \in [1 .. nextTradeID -> LedgerTrades]
  /\ index \in UNION {[S -> SyncRows] : S \in SUBSET (1 .. nextTradeID)}
  /\ index0 = index
  /\ request \in Requests
  /\ runPc = "start"
  /\ maxExistingId = 0
  /\ batches = <<>>
  /\ fetched = NoCalls
  /\ upserted = NoCalls
  /\ sltpPatched = NoCalls
  /\ statePatchCalls = 0

SyncRpcOk == \E b \in DOMAIN batches : BatchRpcOk(b)

SyncHttpOk == \E b \in DOMAIN batches : BatchHttpOk(b)

SyncBatchFails == \E b \in DOMAIN batches : BatchFails(b)

NextSync ==
  \/ SyncMain
  \/ SyncMainFails
  \/ SyncRpcOk
  \/ SyncHttpOk
  \/ SyncBatchFails

SpecSync == InitSync /\ [][NextSync]_vars

\* The same command line is run again once the run has completed: a full
\* reconciliation asked for twice.
\* The counters of the ids fetched and upserted run on.
MaxFetched == 2

SyncAgain ==
  /\ runPc = "done"
  /\ \A id \in ArgIds : fetched[id] < MaxFetched
  /\ runPc' = "start"
  /\ batches' = <<>>
  /\ UNCHANGED <<index, maxExistingId, fetched, upserted, sltpPatched,
                 statePatchCalls>>
  /\ UNCHANGED syncFrame

InitSyncTwice ==
  /\ InitSync
  /\ request.mode = "full"
  /\ request.sel # "none"
  /\ nextTradeID > 0

NextSyncTwice ==
  \/ SyncMain
  \/ SyncMainFails
  \/ SyncRpcOk
  \/ SyncHttpOk
  \/ SyncBatchFails
  \/ SyncAgain

SpecSyncTwice == InitSyncTwice /\ [][NextSyncTwice]_vars

\* An 'sltp' run next to the full reconciliation of another process.
InitSyncShared ==
  /\ InitSync
  /\ request.mode = "sltp"

SyncOtherFullUpsert == \E id \in SyncIds : OtherFullUpsert(id)

NextSyncShared ==
  \/ SyncMain
  \/ SyncMainFails
  \/ SyncRpcOk
  \/ SyncHttpOk
  \/ SyncBatchFails
  \/ SyncOtherFullUpsert

SpecSyncShared == InitSyncShared /\ [][NextSyncShared]_vars

\* The write server from an empty table, with any request at any time.
InitWrite ==
  /\ now = StartTime
  /\ WalletInit
  /\ BatchInit
  /\ IndexInit
  /\ MatchInit
  /\ ExecInit
  /\ WriteInit
  /\ ProofInit
  /\ FeedInit
  /\ ListenInit
  /\ SyncIdle

\* PUT requests that carry a lotSize and no closedLotSize, as the requests of
\* sync.js's payloads for trades that have not closed do.
WritePut ==
  \E id \in WriteIds, b \in PutBodies :
    /\ b.lotSize # NULL
    /\ b.closedLotSize = 0
    /\ PutTrade(id, b)
\* PUT requests with any body.
WritePutAny == \E id \in WriteIds, b \in PutBodies : PutTrade(id, b)
WritePatch == \E id \in WriteIds, p \in PatchBodies : PatchTrade(id, p)
WriteBatchUpsert ==
  \E items \in ItemLists(UpsertItems, UpsertLimit) : PostBatchUpsert(items)
WriteBatchPatchStates ==
  \E items \in ItemLists(StateItems, PatchLimit) : PostBatchPatchStates(items)
WriteBatchPatchSLTP ==
  \E items \in ItemLists(SLTPItems, PatchLimit) : PostBatchPatchSLTP(items)

NextWrite ==
  \/ WritePut
  \/ WritePatch
  \/ WriteBatchUpsert
  \/ WriteBatchPatchStates
  \/ WriteBatchPatchSLTP

SpecWrite == InitWrite /\ [][NextWrite]_vars

\* The single-record routes alone, and the batch routes alone.
NextWriteSingle ==
  \/ WritePutAny
  \/ WritePatch

SpecWriteSingle == InitWrite /\ [][NextWriteSingle]_vars

NextWriteBatch ==
  \/ WriteBatchUpsert
  \/ WriteBatchPatchStates
  \/ WriteBatchPatchSLTP

SpecWriteBatch == InitWrite /\ [][NextWriteBatch]_vars

\* The proof fetcher with an empty cache.
InitProof ==
  /\ now = StartTime
  /\ WalletInit
  /\ BatchInit
  /\ IndexInit
  /\ MatchInit
  /\ ExecInit
  /\ WriteInit
  /\ ProofInit
  /\ FeedInit
  /\ ListenInit
  /\ SyncIdle

ProofCall == \E pairs \in PairInputs : FetchProof(pairs)
ProofPostReturns ==
  \E f \in 1 .. Len(fetches), prefixed \in BOOLEAN : PostReturnsProof(f, prefixed)
ProofPostFails == \E f \in 1 .. Len(fetches) : PostFails(f)

NextProof ==
  \/ ProofCall
  \/ ProofPostReturns
  \/ ProofPostFails
  \/ ProofTick

SpecProof == InitProof /\ [][NextProof]_vars

\* The proof fetcher called with index lists that repeat an index as well.
ProofCallRepeated ==
  \E pairs \in PairInputs \cup {<<2, 1, 1>>} : FetchProof(pairs)

NextProofKeys ==
  \/ ProofCallRepeated
  \/ ProofPostReturns
  \/ ProofPostFails
  \/ ProofTick

SpecProofKeys == InitProof /\ [][NextProofKeys]_vars

\* C1: no wallet is returned twice within perWalletDelayMs of its own previous
\* return: two successive returns of wallet i at t1 < t2 have t2 - t1 >= delay.
C1_MinSpacing ==
  \A i \in Wallets :
    prevRet[i] >= 0 => lastRet[i] - prevRet[i] >= perWalletDelayMs

\* C1 witness: a wallet has been returned a second time.
C1_Witness ==
  \E i \in Wallets : prevRet[i] >= 0 /\ lastRet[i] > prevRet[i]

\* Pairs of executeOnchain calls for the same (kind, tradeId), the second made
\* less than DEDUP_MS after the first.
SameKeyInWindow ==
  {p \in (1 .. Len(attempts)) \X (1 .. Len(attempts)) :
     /\ p[1] < p[2]
     /\ attempts[p[1]].kind = attempts[p[2]].kind
     /\ attempts[p[1]].tradeId = attempts[p[2]].tradeId
     /\ attempts[p[2]].t0 - attempts[p[1]].t0 < DEDUP_MS}

AdmissionEnded(pc) == pc \in {"skipStale", "skipLiquidity", "rejected"}

\* C2 as stated: two executeOnchain calls for the same (kind, tradeId) within
\* DEDUP_MS, the first of which passed the dedup check, result in exactly one
\* wallet acquisition once both calls have returned.
C2_ExactlyOneAcquisition ==
  \A p \in SameKeyInWindow :
    (/\ attempts[p[1]].pc # "deduped"
     /\ Terminal(attempts[p[1]].pc)
     /\ Terminal(attempts[p[2]].pc))
    => Cardinality({a \in {p[1], p[2]} : attempts[a].acquired}) = 1

\* C2: of two executeOnchain calls for the same (kind, tradeId) made within
\* DEDUP_MS of each other at most one acquires a wallet and at most one makes a
\* ledger call; when the first call passed the dedup check the second returns
\* at the dedup check, and the first acquires a wallet unless it is an entry
\* that admission control skipped or whose admission read failed.
C2_AtMostOneAcquisition ==
  \A p \in SameKeyInWindow :
    LET first == attempts[p[1]]
        second == attempts[p[2]]
    IN
    /\ ~(first.acquired /\ second.acquired)
    /\ ~(first.submitted /\ second.submitted)
    /\ first.pc # "deduped" => second.pc = "deduped"
    /\ (first.kind = "exit" /\ first.pc # "deduped") => ~AdmissionEnded(first.pc)
    /\ (/\ first.pc # "deduped"
        /\ Terminal(first.pc)
        /\ ~AdmissionEnded(first.pc))
       => (first.acquired /\ ~second.acquired)

\* C2 witness: the first call acquired a wallet, made the ledger call and was
\* confirmed, and the second call for the same key returned at the dedup check
\* while a call for another key was made in between.
C2_Witness ==
  \E p \in SameKeyInWindow :
    /\ attempts[p[1]].pc = "confirmed"
    /\ attempts[p[1]].acquired
    /\ attempts[p[1]].submitted
    /\ attempts[p[2]].pc = "deduped"
    /\ \E a \in 1 .. Len(attempts) :
         /\ p[1] < a
         /\ a < p[2]
         /\ attempts[a].kind # attempts[p[1]].kind

\* C3: from an idle batcher, with enqueue() the only entry point used, the ids
\* enqueued before the timer fires are flushed by exactly one spawned run, the
\* first, whose id set is exactly those ids; no run is spawned before the timer
\* fires, and a later run holds only ids enqueued after it.
C3_OneFlushPerWindow ==
  directCalls = 0 =>
    /\ fires = 0 => runs = <<>>
    /\ fires >= 1 => (Len(runs) >= 1 /\ runs[1] = firstWindow)
    /\ \A k \in 2 .. Len(runs) : runs[k] \subseteq lateIds

\* C3 witness: every id of the model was enqueued in the first window and the
\* one timer callback spawned the one run for them.
C3_Witness ==
  /\ directCalls = 0
  /\ fires = 1
  /\ Len(runs) = 1
  /\ runs[1] = 1 .. MaxResyncId

\* C4: at most one spawned sync run is in progress in every reachable state,
\* and a flush() entered (by the timer or directly) while a run is in flight
\* leaves a timer armed and spawns nothing.
C4_SingleFlight ==
  /\ [](Len(active) <= 1)
  /\ [][(lastOp' \in {"fire", "direct"} /\ inFlight)
          => (timer' /\ armed' >= 1 /\ active' = active /\ runs' = runs)]_vars

\* C4 witness: a flush() was entered while a run was in flight; the run is still
\* the only one and a timer is armed.
C4_Witness ==
  /\ lastOp \in {"fire", "direct"}
  /\ inFlight
  /\ Len(active) = 1
  /\ timer
  /\ fires = 2

\* C5: every id accepted by enqueue() is eventually in the id set of a spawned
\* full-mode run (timers fire, spawned runs terminate).
C5_EventuallyFlushed ==
  \A i \in 1 .. MaxResyncId :
    (i \in pending) ~> (\E k \in 1 .. Len(active) : i \in active[k])

\* C5 witness: an id that arrived while a run was in flight is covered by a
\* second run.
C5_Witness ==
  /\ Len(runs) = 2
  /\ Len(active) = 1
  /\ active[1] = runs[2]
  /\ lateIds # {}
  /\ runs[2] \cap lateIds # {}

\* The trigger table of entry matching, for a row r and market price m.
EntryTrigger(r, m) ==
  CASE r.isLimit = 1 /\ r.isLong = 1 -> m <= r.openPrice
    [] r.isLimit = 1 /\ r.isLong = 0 -> m >= r.openPrice
    [] r.isLimit # 1 /\ r.isLong = 1 -> m >= r.openPrice
    [] r.isLimit # 1 /\ r.isLong = 0 -> m <= r.openPrice

\* C6: the entry-match response holds trade T iff T is an Order (state 0) of
\* the queried asset whose trigger holds at the market price (boundaries
\* included), under limit iff isLimit = 1 and under stop otherwise.
C6_EntryMatch ==
  query.kind = "entry" =>
    \A T \in MatchIds :
      LET hit == /\ T \in DOMAIN index
                 /\ index[T].state = 0
                 /\ index[T].assetId = query.assetId
                 /\ EntryTrigger(index[T], query.marketE6)
      IN /\ (T \in entryOut.limit) <=> (hit /\ index[T].isLimit = 1)
         /\ (T \in entryOut.stop) <=> (hit /\ index[T].isLimit # 1)

\* C6 witness: a long limit order matched at exactly its openPrice, beside a
\* matched stop order.
C6_Witness ==
  /\ query.kind = "entry"
  /\ \E T \in entryOut.limit :
       index[T].isLong = 1 /\ index[T].openPrice = query.marketE6
  /\ entryOut.stop # {}

\* The exit conditions of a row r at market price m.
StopLossHolds(r, m) ==
  r.stopLoss # 0 /\ (IF r.isLong = 1 THEN m <= r.stopLoss ELSE m >= r.stopLoss)
TakeProfitHolds(r, m) ==
  r.takeProfit # 0 /\ (IF r.isLong = 1 THEN m >= r.takeProfit ELSE m <= r.takeProfit)

\* C7: the exit-match response holds trade T iff T is Open (state 1), of the
\* queried asset, and its enabled stop-loss or take-profit condition holds; a
\* row on which both hold is reported as stopLoss only.
C7_ExitMatch ==
  query.kind = "exits" =>
    \A T \in MatchIds :
      LET open == /\ T \in DOMAIN index
                  /\ index[T].state = 1
                  /\ index[T].assetId = query.assetId
          sl == open /\ StopLossHolds(index[T], query.marketE6)
          tp == open /\ TakeProfitHolds(index[T], query.marketE6)
      IN /\ (T \in exitsOut.stopLoss) <=> sl
         /\ (T \in exitsOut.takeProfit) <=> (tp /\ ~sl)

\* C7 witness: a row on which both conditions hold is in the stopLoss list.
C7_Witness ==
  /\ query.kind = "exits"
  /\ \E T \in exitsOut.stopLoss :
       /\ StopLossHolds(index[T], query.marketE6)
       /\ TakeProfitHolds(index[T], query.marketE6)

\* C8: a stopLoss or takeProfit of 0 is disabled: an open trade with
\* takeProfit = 0 is never in the takeProfit list, one with stopLoss = 0 never in
\* the stopLoss list, and an open long of the queried asset with stopLoss = S > 0
\* and takeProfit = 0 is in the stopLoss list exactly when market <= S.
C8_ZeroDisabled ==
  query.kind = "exits" =>
    \A T \in DOMAIN index :
      /\ index[T].takeProfit = 0 => T \notin exitsOut.takeProfit
      /\ index[T].stopLoss = 0 => T \notin exitsOut.stopLoss
      /\ (/\ index[T].state = 1
          /\ index[T].assetId = query.assetId
          /\ index[T].isLong = 1
          /\ index[T].stopLoss > 0
          /\ index[T].takeProfit = 0)
         => ((T \in exitsOut.stopLoss) <=> (query.marketE6 <= index[T].stopLoss))

\* C8 witness: an open short with stopLoss = 0 is reported for its take-profit
\* at market price 0, and an open long with takeProfit = 0 for its stop-loss.
C8_Witness ==
  /\ query.kind = "exits"
  /\ query.marketE6 = 0
  /\ \E T \in exitsOut.takeProfit : index[T].stopLoss = 0 /\ index[T].isLong = 0
  /\ \E T \in exitsOut.stopLoss : index[T].takeProfit = 0 /\ index[T].isLong = 1

\* The tasks of the run whose id list holds id.
BatchesWith(id) == {k \in DOMAIN batches : id \in SeqToSet(batches[k].ids)}

\* The ids of a 'states' or 'sltp' run that had a row when the run started and
\* the ones that had none.
PresentRequested == {id \in SyncIds : BatchesWith(id) # {} /\ id \in DOMAIN index0}

AbsentRequested == {id \in SyncIds : BatchesWith(id) # {} /\ id \notin DOMAIN index0}

C10_AbsentEscalated ==
  request.mode \in {"sltp", "states"} =>
    /\ \A k \in DOMAIN batches :
         \A id \in SeqToSet(batches[k].patches) : id \in DOMAIN index0
    /\ \A id \in SyncIds : id \notin DOMAIN index0 => sltpPatched[id] = 0
    /\ \A id \in AbsentRequested : id >= 1 /\ id <= maxExistingId
    /\ runPc = "done" =>
         \A id \in AbsentRequested :
           /\ fetched[id] >= 1
           /\ upserted[id] >= 1
           /\ id \in DOMAIN index
           /\ index[id] = TradeToPayload(ledger[id])

\* C10 witness: a completed 'sltp' run upserted in full an id that had no row
\* and patched the thresholds of another that had one.
C10_Witness ==
  /\ request.mode = "sltp"
  /\ runPc = "done"
  /\ \E id \in AbsentRequested : upserted[id] = 1 /\ sltpPatched[id] = 0
  /\ \E id \in PresentRequested : sltpPatched[id] = 1 /\ upserted[id] = 0

\* Whether the thresholds the index held for id when the run started are the
\* ledger's.
SameThresholds(id) ==
  /\ index0[id].stopLoss = ledger[id].stopLoss
  /\ index0[id].takeProfit = ledger[id].takeProfit

\* The row of id with the ledger's thresholds and every other column as stored.
ThresholdsPatched(id) ==
  [index0[id] EXCEPT !.stopLoss = ledger[id].stopLoss,
                     !.takeProfit = ledger[id].takeProfit]

\* C11: in an 'sltp' run, of the ids that had a row only those whose stored
\* stopLoss or takeProfit differs from the ledger's enter a patch list; a row
\* whose thresholds equal the ledger's is never written, a patched row differs
\* from the stored one in stopLoss and takeProfit only, and once the run has
\* completed every row whose thresholds differed has been patched.
C11_PatchOnlyDiffering ==
  request.mode = "sltp" =>
    /\ \A k \in DOMAIN batches :
         \A id \in SeqToSet(batches[k].patches) :
           id \in DOMAIN index0 /\ ~SameThresholds(id)
    /\ \A id \in PresentRequested :
         /\ upserted[id] = 0
         /\ SameThresholds(id) => (sltpPatched[id] = 0 /\ index[id] = index0[id])
         /\ index[id] = IF sltpPatched[id] = 0 THEN index0[id]
                        ELSE ThresholdsPatched(id)
         /\ (runPc = "done" /\ ~SameThresholds(id)) => sltpPatched[id] >= 1

\* C11 witness: a completed 'sltp' run patched the thresholds of a row whose
\* state is not the ledger's and left that state as stored, and did not write
\* another requested row whose thresholds were the ledger's.
C11_Witness ==
  /\ request.mode = "sltp"
  /\ runPc = "done"
  /\ \E id \in PresentRequested :
       /\ sltpPatched[id] = 1
       /\ index0[id].state # ledger[id].state
       /\ index[id].state = index0[id].state
       /\ index[id].stopLoss = ledger[id].stopLoss
  /\ \E id \in PresentRequested : SameThresholds(id) /\ sltpPatched[id] = 0

\* C12: once a 'full' run has completed, every id it was run for has a row
\* whose every column is the payload of the ledger's trade, whether the id had
\* a row before or not and whatever that row held.
C12_FullOverwrites ==
  (request.mode = "full" /\ runPc = "done") =>
    \A id \in SyncIds :
      BatchesWith(id) # {} =>
        /\ id \in DOMAIN index
        /\ index[id] = TradeToPayload(ledger[id])
        /\ upserted[id] >= 1
        /\ fetched[id] = upserted[id]

\* C12 witness: a completed 'full' run inserted a row for an id that had none
\* and overwrote the row of another id that differed from the ledger's trade.
C12_Witness ==
  /\ request.mode = "full"
  /\ runPc = "done"
  /\ \E id \in AbsentRequested : index[id] = TradeToPayload(ledger[id])
  /\ \E id \in PresentRequested :
       /\ index0[id] # TradeToPayload(ledger[id])
       /\ index[id] = TradeToPayload(ledger[id])

\* The ids the ledger holds according to the bound the run has read.
InBoundIds == {id \in ArgIds : id >= 1 /\ id <= maxExistingId}

\* C13: a run that goes past main()'s first await holds nextTradeID() as its
\* bound, and in every mode and for every selector the id lists of its tasks,
\* the ids it reads from the ledger and the ids it writes to the index are all
\* between 1 and that bound.
C13_IdsWithinBound ==
  /\ runPc \notin {"idle", "start", "failed"} => maxExistingId = nextTradeID
  /\ \A k \in DOMAIN batches :
       /\ SeqToSet(batches[k].ids) \subseteq InBoundIds
       /\ SeqToSet(batches[k].missing) \subseteq InBoundIds
       /\ SeqToSet(batches[k].present) \subseteq InBoundIds
       /\ SeqToSet(batches[k].needFull) \subseteq InBoundIds
       /\ SeqToSet(batches[k].patches) \subseteq InBoundIds
  /\ \A id \in ArgIds \ InBoundIds :
       /\ fetched[id] = 0
       /\ upserted[id] = 0
       /\ sltpPatched[id] = 0
  /\ DOMAIN index \subseteq (DOMAIN index0) \cup InBoundIds

\* C13 witness: a completed run whose --ids list named 0 and an id above the
\* bound next to an id of the ledger, and read and wrote that one only.
C13_Witness ==
  /\ runPc = "done"
  /\ request.sel = "ids"
  /\ 0 \in SeqToSet(request.ids)
  /\ \E id \in SeqToSet(request.ids) : id > maxExistingId
  /\ \E id \in InBoundIds : fetched[id] = 1 /\ upserted[id] = 1

\* The executeOnchain calls made so far, and those that passed the dedup test.
Attempts == 1 .. Len(attempts)
Passed == {a \in Attempts : attempts[a].pc # "deduped"}

RECURSIVE SumEnq(_)
SumEnq(n) == IF n = 0 THEN 0 ELSE attempts[n].enq + SumEnq(n - 1)

\* C16: an entry attempt that passed dedup and read a locked amount of zero is
\* skipped: it acquires no wallet, fetches no proof and makes no ledger call,
\* it has called resyncBatcher.enqueue once and the trade id is pending in the
\* batcher; the batcher has seen exactly the enqueue calls the attempts made.
C16_ZeroLockedSkipped ==
  /\ enqCalls = SumEnq(Len(attempts))
  /\ \A a \in Passed :
       (attempts[a].kind = "entry" /\ attempts[a].locked = 0) =>
         /\ attempts[a].pc = "skipStale"
         /\ ~attempts[a].acquired
         /\ ~attempts[a].submitted
         /\ attempts[a].wallet = -1
         /\ attempts[a].free = -1
         /\ attempts[a].enq = 1
         /\ attempts[a].tradeId \in pending

\* C16 witness: an entry attempt read locked = 0 and was skipped with the trade
\* enqueued, while no wallet has been handed out.
C16_Witness ==
  \E a \in Passed :
    /\ attempts[a].kind = "entry"
    /\ attempts[a].locked = 0
    /\ attempts[a].pc = "skipStale"
    /\ attempts[a].tradeId \in pending
    /\ enqCalls = 1
    /\ \A i \in Wallets : busyUntil[i] = 0

\* C17: an entry attempt that compared a nonzero locked amount with a smaller
\* free capital is skipped without an enqueue call, without a wallet and
\* without a ledger call; and an exit attempt never reads or compares either
\* amount and never stops at an admission step.
C17_ShortLiquiditySkipped ==
  \A a \in Passed :
    /\ ( /\ attempts[a].kind = "entry"
         /\ attempts[a].locked > 0
         /\ attempts[a].free >= 0
         /\ attempts[a].free < attempts[a].locked ) =>
         /\ attempts[a].pc = "skipLiquidity"
         /\ attempts[a].enq = 0
         /\ ~attempts[a].acquired
         /\ ~attempts[a].submitted
         /\ attempts[a].wallet = -1
    /\ attempts[a].kind = "exit" =>
         /\ attempts[a].locked = -1
         /\ attempts[a].free = -1
         /\ attempts[a].pc \notin {"lockedHttp", "freeRpc", "skipStale",
                                   "skipLiquidity", "rejected"}

\* C17 witness: an entry attempt was skipped for free < locked with nothing
\* enqueued, and an exit attempt for the same trade got its wallet although
\* the cached amounts say free < locked.
C17_Witness ==
  /\ \E a \in Passed :
       /\ attempts[a].kind = "entry"
       /\ attempts[a].pc = "skipLiquidity"
       /\ attempts[a].free < attempts[a].locked
  /\ enqCalls = 0
  /\ pending = {}
  /\ \E b \in Passed :
       /\ attempts[b].kind = "exit"
       /\ attempts[b].acquired
       /\ attempts[b].tradeId \in DOMAIN lockedCache
       /\ lpFreeCache.valueE6 < lockedCache[attempts[b].tradeId]

\* The attempts made for an entry after the last attempt that passed dedup for
\* it had been skipped for short liquidity.
AfterLiquiditySkip ==
  {b \in Attempts : attempts[b].kind = "entry" /\ attempts[b].afterSkip}

\* The latest attempt before b for b's key that passed dedup.
PassedBefore(b) ==
  CHOOSE a \in Passed :
    /\ a < b
    /\ attempts[a].kind = attempts[b].kind
    /\ attempts[a].tradeId = attempts[b].tradeId
    /\ \A c \in Passed :
         (c < b /\ attempts[c].kind = attempts[b].kind
                /\ attempts[c].tradeId = attempts[b].tradeId) => c <= a

\* C18 as stated: the next attempt for an entry after a liquidity skip performs
\* the free-capital check again.
C18_NextAttemptRechecks ==
  \A b \in AfterLiquiditySkip : attempts[b].pc # "deduped"

\* C18: after a liquidity skip of an entry, an attempt made fewer than DEDUP_MS
\* after the skipped one returns at the dedup test and compares nothing; the
\* next attempt that passes dedup is made DEDUP_MS or more after the skipped
\* one, compares the locked amount with a free capital whose cache entry is
\* younger than LP_FREE_TTL_MS when it is read, and goes on to the wallet
\* exactly when that free capital covers the locked amount.
C18_RecheckAfterDedupWindow ==
  \A b \in AfterLiquiditySkip :
    LET a == PassedBefore(b)
        B == attempts[b]
    IN /\ attempts[a].pc = "skipLiquidity"
       /\ B.t0 - attempts[a].t0 < DEDUP_MS => (B.pc = "deduped" /\ B.free = -1)
       /\ B.pc # "deduped" =>
            /\ B.t0 - attempts[a].t0 >= DEDUP_MS
            /\ B.locked = attempts[a].locked
            /\ B.pc \in {"freeRpc", "rejected"} => B.free = -1
            /\ B.pc \notin {"freeRpc", "rejected"} =>
                 /\ B.free >= 0
                 /\ B.freeYoung
                 /\ (B.free < B.locked) = (B.pc = "skipLiquidity")
                 /\ (B.free >= B.locked) =
                      (B.pc \in {"sleeping", "proof", "submit", "confirm",
                                 "failed", "confirmed"})

\* C18 witness: an entry was skipped for short liquidity, an attempt inside the
\* dedup window was dropped, and a later attempt read a sufficient free capital
\* and got a wallet.
C18_Witness ==
  \E b \in AfterLiquiditySkip, c \in AfterLiquiditySkip :
    /\ b < c
    /\ attempts[b].pc = "deduped"
    /\ attempts[c].acquired
    /\ attempts[c].free >= attempts[c].locked
    /\ attempts[PassedBefore(c)].free < attempts[c].locked

\* What an attempt has done by the step it stands at: a failed attempt had its
\* wallet and made one enqueue call, with the trade id pending in the batcher;
\* a ledger call was made only by an attempt whose proof resolved.
FailureEnqueued ==
  /\ enqCalls = SumEnq(Len(attempts))
  /\ \A a \in Attempts :
       LET A == attempts[a] IN
       /\ A.enq \in {0, 1}
       /\ A.pc = "failed" =>
            /\ A.acquired
            /\ A.enq = 1
            /\ A.tradeId \in pending
       /\ A.submitted = (A.pc \in {"submit", "confirm", "confirmed"}
                           \/ (A.pc = "failed" /\ A.submitted))
       /\ A.submitted => A.acquired
       /\ (A.acquired /\ A.pc # "failed") => A.enq = 0

\* A failed attempt takes no further step, and no attempt comes to the ledger
\* call a second time.
NoRetryStep ==
  \A a \in Attempts :
    /\ attempts[a].pc = "failed" => attempts'[a] = attempts[a]
    /\ attempts[a].submitted =>
         /\ attempts'[a].submitted
         /\ attempts'[a].pc = "submit" => attempts[a].pc = "submit"

\* C20: an attempt that got its wallet and failed in fetchProof, in the ledger
\* call or in tx.wait(1) has called resyncBatcher.enqueue exactly once and is
\* never taken up again; every attempt makes at most one ledger call, and an
\* attempt whose fetchProof failed makes none.
C20_FailureEnqueuedOnce == []FailureEnqueued /\ [][NoRetryStep]_vars

\* C20 witness: one attempt failed in fetchProof with no ledger call and
\* another failed after its ledger call, and the batcher saw two enqueue calls.
C20_Witness ==
  /\ \E a \in Attempts :
       attempts[a].pc = "failed" /\ ~attempts[a].submitted /\ attempts[a].enq = 1
  /\ \E a \in Attempts :
       attempts[a].pc = "failed" /\ attempts[a].submitted /\ attempts[a].enq = 1
  /\ enqCalls = 2

\* Whether attempt b was made after the last upsert of its trade's row.
AfterLastUpsert(b) == attempts[b].upserts = upserted[attempts[b].tradeId]

\* The free capital an attempt compared came from a cache entry younger than
\* LP_FREE_TTL_MS when the attempt read it.
FreeCapitalFresh ==
  \A b \in Passed :
    attempts[b].free >= 0 => attempts[b].freeYoung

\* C19: the free capital an attempt compares is never older than
\* LP_FREE_TTL_MS, and the locked amount compared by an entry attempt made
\* after reconciliation last wrote the trade's row is the row's
\* lpLockedCapital.
C19_AdmissionValuesFresh ==
  /\ FreeCapitalFresh
  /\ \A b \in Passed :
       ( /\ attempts[b].kind = "entry"
         /\ attempts[b].locked # -1
         /\ AfterLastUpsert(b)
         /\ attempts[b].tradeId \in DOMAIN index ) =>
         attempts[b].locked = index[attempts[b].tradeId].lpLockedCapital

\* The write server applies the batchPatchSLTP request of task b in this step.
PatchApplied(b) ==
  /\ request.mode = "sltp"
  /\ batches[b].pc = "patch"
  /\ batches'[b].pc \notin {"patch", "failed"}

\* C14: every step that changes a row of the index either replaces it by the
\* payload of the ledger's trade or changes its stopLoss and takeProfit only,
\* and a stopLoss/takeProfit patch is applied only to rows whose state is still
\* the one the row had when the patch values were compared, also when another
\* full reconciliation writes between the comparison and the patch.
C14_PatchOnlyUnchangedState ==
  [][ /\ \A id \in DOMAIN index :
           (id \in DOMAIN index' /\ index'[id] # index[id]) =>
             \/ index'[id] = TradeToPayload(ledger[id])
             \/ index'[id] = [index[id] EXCEPT !.stopLoss = index'[id].stopLoss,
                                               !.takeProfit = index'[id].takeProfit]
      /\ \A b \in DOMAIN batches :
           PatchApplied(b) =>
             \A id \in SeqToSet(batches[b].patches) :
               index[id].state = batches[b].seen[id] ]_vars

\* A move of the stored state along Order (0) -> Open (1) -> Closed (2) or
\* Cancelled (3), a state that stays, or a move that skips Open.
LegalMove(s, t) ==
  \/ s = t
  \/ s = 0 /\ t \in {1, 2, 3}
  \/ s = 1 /\ t \in {2, 3}

\* C15: no write moves the stored state of a trade backwards or away from
\* Closed or Cancelled.
C15_StateOnlyMovesForward ==
  [][\A id \in DOMAIN index :
       id \in DOMAIN index' => LegalMove(index[id].state, index'[id].state)]_vars

\* The patches that ask for state = 2 and pass the closePrice rule on the
\* row they meet.
ClosingPatch(id, p) ==
  /\ id \in DOMAIN index
  /\ "state" \in DOMAIN p
  /\ p["state"] = 2
  /\ PatchResult(index, id, p).res.status = 200

Rejected(r) == r = Result(index, Err(400, CloseError))

\* PUT with state = 2 and closePrice missing or zero, and PATCH with state = 2
\* when neither the patch nor the stored row has a nonzero closePrice, answer
\* 400 and leave the table as it was.
CloseRuleRejects ==
  /\ \A id \in WriteIds, b \in PutBodies :
       (b.traderOk /\ b.state = 2 /\ b.closePrice = 0)
         => Rejected(PutResult(index, id, b))
  /\ \A id \in DOMAIN index, p \in PatchBodies :
       (/\ "state" \in DOMAIN p
        /\ p["state"] = 2
        /\ ("closePrice" \in DOMAIN p => p["closePrice"] = 0)
        /\ index[id].closePrice = 0)
         => Rejected(PatchResult(index, id, p))

\* C25 as the specification states it: with the rejections above, every
\* accepted PATCH to state = 2 that carries no closedLotSize leaves the row's
\* closedLotSize equal to the stored lotSize.
C25_ClosedLotSizeIsLotSize ==
  /\ CloseRuleRejects
  /\ \A id \in WriteIds, p \in PatchBodies :
       (ClosingPatch(id, p) /\ "closedLotSize" \notin DOMAIN p)
         => PatchResult(index, id, p).ix[id].closedLotSize = index[id].lotSize

\* C25, amended: the rejections hold as stated, and an accepted PATCH to
\* state = 2 without closedLotSize sets closedLotSize to the stored lotSize when
\* the row has a lotSize; when the stored lotSize is null the closedLotSize
\* stays as stored.
C25_ClosedLotSizeFromStoredLotSize ==
  /\ CloseRuleRejects
  /\ \A id \in WriteIds, p \in PatchBodies :
       (ClosingPatch(id, p) /\ "closedLotSize" \notin DOMAIN p)
         => PatchResult(index, id, p).ix[id].closedLotSize =
              IF index[id].lotSize # NULL THEN index[id].lotSize
              ELSE index[id].closedLotSize

\* A close was refused just now, while another row was closed by a PATCH-able
\* record whose closedLotSize is its lotSize.
C25_Witness ==
  /\ response = Err(400, CloseError)
  /\ \E id \in DOMAIN index :
       /\ index[id].state # 2
       /\ index[id].closePrice = 0
       /\ \E p \in PatchBodies :
            /\ "state" \in DOMAIN p
            /\ p["state"] = 2
            /\ Rejected(PatchResult(index, id, p))
  /\ \E id \in DOMAIN index, p \in PatchBodies :
       /\ ClosingPatch(id, p)
       /\ "closedLotSize" \notin DOMAIN p
       /\ index[id].closedLotSize # index[id].lotSize
       /\ index[id].lotSize # NULL

\* The positions of the items of a batch that are for id and carry col.
Carrying(items, id, col) ==
  {k \in DOMAIN items : items[k].id = id /\ col \in DOMAIN items[k].patch}

LastOf(K) == CHOOSE k \in K : \A j \in K : j <= k

\* after is before with every trade of the batch upserted: each id of the
\* batch has the row of its last item, the other rows are as before.
UpsertedInFull(before, items, after) ==
  /\ DOMAIN after = (DOMAIN before) \cup {items[k].id : k \in DOMAIN items}
  /\ \A id \in DOMAIN after :
       LET K == {k \in DOMAIN items : items[k].id = id} IN
       IF K = {} THEN after[id] = before[id]
       ELSE after[id] =
              WriteRow(items[LastOf(K)].state, items[LastOf(K)].closePrice, 0, 0)

\* after is before with every patch of the batch applied: each column has the
\* value of the last item that carries it for the row, and every column no
\* item carries is as before.
PatchedInFull(before, items, after) ==
  /\ DOMAIN after = DOMAIN before
  /\ \A id \in DOMAIN before : \A col \in DOMAIN before[id] :
       LET K == Carrying(items, id, col) IN
       after[id][col] = IF K = {} THEN before[id][col]
                        ELSE items[LastOf(K)].patch[col]

\* The batches the routes refuse: empty, over the limit, or with an item
\* that does not pass validation.
Refused(items, limit) ==
  \/ Len(items) = 0
  \/ Len(items) > limit
  \/ \E k \in DOMAIN items : ~items[k].valid

BatchesAllOrNothing ==
  /\ \A items \in ItemLists(UpsertItems, UpsertLimit) :
       LET r == BatchUpsertResult(index, items) IN
       IF Refused(items, UpsertLimit)
       THEN r.ix = index /\ r.res.status = 400
       ELSE UpsertedInFull(index, items, r.ix) /\ r.res.status = 200
  /\ \A items \in ItemLists(StateItems, PatchLimit) :
       LET r == BatchPatchResult(index, items, StateCols) IN
       IF Refused(items, PatchLimit)
       THEN r.ix = index /\ r.res.status = 400
       ELSE PatchedInFull(index, items, r.ix) /\ r.res.status = 200
  /\ \A items \in ItemLists(SLTPItems, PatchLimit) :
       LET r == BatchPatchResult(index, items, SLTPCols) IN
       IF Refused(items, PatchLimit)
       THEN r.ix = index /\ r.res.status = 400
       ELSE PatchedInFull(index, items, r.ix) /\ r.res.status = 200

\* A request that is answered with an error leaves the table, and so every
\* read of it, as before the request.
RefusedWritesNothing == response'.status # 200 => index' = index

\* C26: batchUpsert, batchPatchStates and batchPatchSLTP are applied in full
\* or not at all: an empty batch, one over the limit or one with an invalid
\* item writes nothing, any other batch writes every item, and the table a
\* read can see changes from before the batch to after it in one step.
C26_BatchesAtomic == []BatchesAllOrNothing /\ [][RefusedWritesNothing]_vars

\* A batch over the limit was refused after a batch of two trades was
\* written, and a batch with an invalid item is refused in this state too.
C26_Witness ==
  /\ response = Err(400, "Too many trades in one batch")
  /\ DOMAIN index = WriteIds
  /\ \E items \in ItemLists(StateItems, PatchLimit) :
       /\ Len(items) = PatchLimit
       /\ items[1].valid /\ items[1].id \in DOMAIN index
       /\ ~items[PatchLimit].valid
       /\ BatchPatchResult(index, items, StateCols).ix = index

\* The number of patches of ps that, applied in order to ix, meet a row and
\* leave it different from what it was.
RECURSIVE RowsChanged(_, _, _)
RowsChanged(ix, ps, cols) ==
  IF ps = <<>> THEN 0
  ELSE LET p == Head(ps)
           ix1 == IF p.id \in DOMAIN ix
                  THEN [ix EXCEPT ![p.id] = Coalesce(@, p.patch, cols)]
                  ELSE ix
       IN (IF ix1 # ix THEN 1 ELSE 0) + RowsChanged(ix1, Tail(ps), cols)

\* C27: the number batchPatchStates and batchPatchSLTP return is the number
\* of patches of the batch that changed the stored record; a patch for an
\* absent id or with the stored values is not counted.
C27_CountIsRowsChanged ==
  /\ \A items \in ItemLists(StateItems, PatchLimit) :
       ~Refused(items, PatchLimit) =>
         BatchPatchResult(index, items, StateCols).res.count =
           RowsChanged(index, items, StateCols)
  /\ \A items \in ItemLists(SLTPItems, PatchLimit) :
       ~Refused(items, PatchLimit) =>
         BatchPatchResult(index, items, SLTPCols).res.count =
           RowsChanged(index, items, SLTPCols)

\* C28: a call of acquire() that finds every wallet busy returns no later than the latest busyUntil at the call plus
\* scheduling overhead (the 10 ms minimum of a wait and the lateness of the
\* call's timers), whoever else is calling: every timer the call sets is due
\* within that bound.
C28_WaitBounded ==
  \A c \in Callers :
    wpc[c] = "sleeping" => wakeAt[c] <= waitBound[c] + MinWaitMs

\* C29: wallet selection is fair: a wallet that is free is passed over by
\* fewer returns of other wallets than there are wallets before it is returned
\* itself, so no stream of acquire() calls returns the others for ever while
\* it is free.
C29_NoWalletPassedOver ==
  \A i \in Wallets : passedOver[i] <= NumWallets - 1

\* Every wallet has been returned, one of them twice, and a wallet that came
\* free again has been passed over by the return of another.
C29_Witness ==
  /\ \A i \in Wallets : lastRet[i] >= 0
  /\ \E i \in Wallets : prevRet[i] >= 0
  /\ \E i \in Wallets : passedOver[i] = NumWallets - 1

\* The steps an attempt may take from step pc.
AttemptMoves(pc) ==
  CASE pc = "lockedHttp" ->
         {"freeRpc", "skipStale", "skipLiquidity", "rejected", "sleeping",
          "proof"}
    [] pc = "freeRpc" -> {"skipLiquidity", "rejected", "sleeping", "proof"}
    [] pc = "sleeping" -> {"sleeping", "proof"}
    [] pc = "proof" -> {"submit", "failed"}
    [] pc = "submit" -> {"confirm", "failed"}
    [] pc = "confirm" -> {"confirmed", "failed"}
    [] OTHER -> {}

\* What an attempt has behind it at each step.
AttemptInOrder(att) ==
  LET admitted == att.kind = "entry" => (att.locked > 0 /\ att.free >= att.locked)
      afterWallet == att.pc \in {"proof", "submit", "confirm", "confirmed", "failed"}
  IN
  /\ att.acquired <=> afterWallet
  /\ att.acquired => (admitted /\ att.wallet \in Wallets)
  /\ att.pc = "sleeping" => admitted
  /\ att.kind = "exit" => att.pc \notin {"lockedHttp", "freeRpc", "skipStale",
                                         "skipLiquidity", "rejected"}
  /\ att.submitted <=> (att.pc \in {"submit", "confirm", "confirmed"}
                         \/ (att.pc = "failed" /\ att.submitted))
  /\ att.submitted => att.acquired
  /\ att.pc \in {"deduped", "skipStale", "skipLiquidity"} =>
       (~att.acquired /\ ~att.submitted)
  /\ att.pc = "skipStale" => (att.locked = 0 /\ att.free = -1)
  /\ att.pc = "skipLiquidity" => (att.locked > 0 /\ att.free < att.locked)
  /\ att.pc = "failed" => (att.acquired /\ att.enq = 1)

AttemptsInOrder == \A a \in Attempts : AttemptInOrder(attempts[a])

AttemptsMoveInOrder ==
  \A a \in Attempts :
    attempts'[a].pc # attempts[a].pc =>
      attempts'[a].pc \in AttemptMoves(attempts[a].pc)

\* C30: an attempt goes through dedup, then for an entry admission, then
\* the wallet, then the proof, then the ledger call, then confirmation: it
\* holds a wallet only after dedup and admission passed, it has made a ledger
\* call only after the proof fetch resolved, it is skipped only at dedup or
\* admission, and it fails and enqueues the trade only after it got a wallet.
C30_AttemptOrder == []AttemptsInOrder /\ [][AttemptsMoveInOrder]_vars

\* An entry was admitted, got a wallet and was confirmed, and another
\* attempt failed after it got its wallet.
C30_Witness ==
  /\ \E a \in Attempts :
       /\ attempts[a].kind = "entry"
       /\ attempts[a].pc = "confirmed"
       /\ attempts[a].locked > 0
  /\ \E a \in Attempts : attempts[a].pc = "failed"

\* Whatever the other attempts do or fail to do, the handler can make its
\* next call, and every attempt that waits for an answer or a timer can take
\* its next step when the answer comes or the timer is due.
NoAttemptHeldBack ==
  /\ Len(attempts) < MaxAttempts =>
       \A k \in Keys : ENABLED Dispatch(k.kind, k.tradeId)
  /\ \A a \in Attempts :
       /\ attempts[a].pc \in {"proof", "submit", "confirm"} =>
            ENABLED ExecStepOk(a)
       /\ attempts[a].pc = "lockedHttp" =>
            \A v \in Capitals : ENABLED LockedHttpOk(a, v)
       /\ attempts[a].pc = "freeRpc" =>
            \A f \in Capitals : ENABLED FreeRpcOk(a, f)
       /\ (attempts[a].pc = "sleeping" /\ now >= attempts[a].wakeAt) =>
            ENABLED ExecWake(a)

\* A step of one attempt leaves the records of the others as they were.
SiblingsUntouched ==
  \A a, b \in Attempts :
    (a # b /\ attempts'[a] # attempts[a]) => attempts'[b] = attempts[b]

\* C21: attempts are isolated: the failure, the skip or the stall of one
\* attempt of a tick never keeps the handler from dispatching the next one
\* nor a sibling from going on to its end.
C21_AttemptsIsolated == []NoAttemptHeldBack /\ [][SiblingsUntouched]_vars

\* Two attempts were dispatched at the same time; the first got a wallet and
\* its proof fetch never answered, or it failed, and the second was confirmed.
C21_Witness ==
  \E a, b \in Attempts :
    /\ a < b
    /\ attempts[a].t0 = attempts[b].t0
    /\ attempts[a].pc = "proof"
    /\ attempts[b].pc = "confirmed"
    /\ \E c \in Attempts : attempts[c].pc \in {"failed", "skipStale", "skipLiquidity"}

\* C22: two attempts that acquire the same wallet make their ledger calls in
\* the order of their acquisitions, however long the proof fetch takes: when
\* the later one has made its call, the earlier one is not still waiting for
\* its proof with its call to come.
C22_SubmissionsSerializedPerSigner ==
  \A b \in Attempts :
    (attempts[b].submitted /\ attempts[b].prior # 0) =>
      attempts[attempts[b].prior].pc # "proof"

Fetches == 1 .. Len(fetches)

\* C23: fetchProof returns the cached proof, without a network call, when
\* the cache entry of the key is younger than the TTL, and goes to the
\* network otherwise: no proof comes back from an entry that is TTL old or
\* older, nor was it made by the service that long before.
C23_CacheOnlyWhileYoung ==
  \A f \in Fetches :
    /\ fetches[f].cached <=>
         (fetches[f].hitAge # NULL /\ fetches[f].hitAge < PROOF_TTL_MS)
    /\ fetches[f].cached =>
         /\ fetches[f].tried = <<>>
         /\ fetches[f].pc = "returned"
         /\ fetches[f].result.prefixed
         /\ fetches[f].t0 - fetches[f].result.made < PROOF_TTL_MS
    /\ ~fetches[f].cached => fetches[f].tried # <<>>

\* A call was answered from the entry another call, made with the indexes
\* in another order, had cached one tick before the TTL ran out.
C23_Witness ==
  \E f, g \in Fetches :
    /\ fetches[f].cached
    /\ fetches[f].hitAge = PROOF_TTL_MS - 1
    /\ ~fetches[g].cached
    /\ fetches[g].pairs # fetches[f].pairs
    /\ fetches[g].result = fetches[f].result

\* What a call that went to the network has done at each step.
CandidatesInOrder ==
  \A f \in Fetches :
    ~fetches[f].cached =>
      LET n == Len(fetches[f].tried) IN
      /\ fetches[f].tried = SubSeq(Endpoints, 1, n)
      /\ fetches[f].pc = "post" =>
           fetches[f].lastErr = (IF n = 1 THEN NoErr ELSE Endpoints[n - 1])
      /\ fetches[f].pc = "returned" =>
           /\ fetches[f].result # NoProof
           /\ fetches[f].lastErr = (IF n = 1 THEN NoErr ELSE Endpoints[n - 1])
      /\ fetches[f].pc = "failed" =>
           /\ n = Len(Endpoints)
           /\ fetches[f].lastErr = Endpoints[Len(Endpoints)]
           /\ fetches[f].result = NoProof

\* A call that has returned or failed contacts no further candidate, and the
\* cache changes only when a call returns a proof it fetched.
SettledCallsStay ==
  /\ \A f \in Fetches :
       fetches[f].pc \in {"returned", "failed"} => fetches'[f] = fetches[f]
  /\ proofCache' # proofCache =>
       \E f \in Fetches :
         /\ fetches[f].pc = "post"
         /\ fetches'[f].pc = "returned"

\* C24: on a cache miss the candidates are posted in the order base, /rpc,
\* /v2/pull/get_proof, /pull-service/get_proof, /get_proof; the first answer
\* with proof bytes ends the call and no later candidate is contacted; when
\* all five fail the call fails with the error of the last one; a call that
\* fails leaves the cache as it was.
C24_CandidatesInOrder == []CandidatesInOrder /\ [][SettledCallsStay]_vars

\* One call failed after all five candidates, another got its proof from a
\* candidate after the first, and the cache holds that proof.
C24_Witness ==
  \E f, g \in Fetches :
    /\ fetches[f].pc = "failed"
    /\ fetches[g].pc = "returned"
    /\ Len(fetches[g].tried) > 1
    /\ MakeKey(fetches[g].pairs) \in DOMAIN proofCache
    /\ proofCache[MakeKey(fetches[g].pairs)].proof = fetches[g].result

\* The place of wallet i in the scan that starts at the cursor.
ScanPlace(i) == (i - nextIndex + NumWallets) % NumWallets

\* A step that returns wallet i: i was free, every wallet before it in the
\* scan was busy, i is busy for perWalletDelayMs from now, the cursor is at
\* the wallet after i, and no other wallet's busyUntil has moved.
ReturnsFirstFree ==
  \A i \in Wallets :
    busyUntil'[i] # busyUntil[i] =>
      /\ now >= busyUntil[i]
      /\ \A j \in Wallets : ScanPlace(j) < ScanPlace(i) => now < busyUntil[j]
      /\ busyUntil'[i] = now + perWalletDelayMs
      /\ nextIndex' = (i + 1) % NumWallets
      /\ \A j \in Wallets \ {i} : busyUntil'[j] = busyUntil[j]

\* A step that returns no wallet leaves the cursor where it was, and a caller
\* goes to sleep only when no wallet is free.
SleepsOnlyWhenAllBusy ==
  /\ busyUntil' = busyUntil => nextIndex' = nextIndex
  /\ \A c \in Callers :
       (wpc'[c] = "sleeping" /\ wakeAt'[c] # wakeAt[c]) =>
         \A i \in Wallets : now < busyUntil[i]

\* C31: acquire() scans from the cursor and returns the first wallet whose
\* busyUntil has passed; on return that wallet's busyUntil is now +
\* perWalletDelayMs, the cursor is the wallet after it (mod N) and the other
\* wallets' busyUntil are unchanged.
C31_ScanReturnsFirstFree ==
  [][ReturnsFirstFree /\ SleepsOnlyWhenAllBusy]_vars

\* A wallet was returned just now past a wallet that is still busy from an
\* earlier return, and the cursor is behind the returned wallet.
C31_Witness ==
  \E i, j \in Wallets :
    /\ i # j
    /\ lastRet[i] = now
    /\ busyUntil[i] = now + perWalletDelayMs
    /\ nextIndex = (i + 1) % NumWallets
    /\ lastRet[j] >= 0 /\ lastRet[j] < now
    /\ busyUntil[j] > now

\* C32: two requests whose index lists hold the same set of indices, in any
\* order and with any repetitions, share a cache entry: when the first has
\* fetched and cached its proof, the second, made less than the TTL after it,
\* is served from the cache.
C32_SameSetSameEntry ==
  \A f, g \in Fetches :
    (/\ f < g
     /\ SeqToSet(fetches[f].pairs) = SeqToSet(fetches[g].pairs)
     /\ ~fetches[f].cached
     /\ fetches[f].pc = "returned"
     /\ fetches[f].result.made < fetches[g].t0
     /\ fetches[g].t0 - fetches[f].t0 < PROOF_TTL_MS)
      => fetches[g].cached

\* The ticks of the message whose pair is quoted and whose price does not
\* convert: absent, empty, or not a number.
Unconvertible(tick) ==
  /\ tick.pair = "btc_usdt"
  /\ DecimalToE6(PickMarketFromTick(tick)).kind # "number"

HandlerEnded == feed # <<>> /\ (Len(handled) = Len(feed) \/ Threw)

Magnitude(t) ==
  LET int == BeforeDot(t)
      frac == AfterDot(t)
      seven == SubSeq(frac \o <<"0", "0", "0", "0", "0", "0", "0">>, 1, 7)
  IN DigitsValue(int) * E6 + (DigitsValue(seven) + 5) \div 10

ValueE6(text) ==
  IF Head(text) = "-" THEN 0 - Magnitude(Tail(text)) ELSE Magnitude(text)

\* C35: decimalToE6 returns the units times 10^6 plus the first six fractional
\* digits rounded half-up on the seventh, the sign applied last; and a decimal
\* of at most six fractional digits converts, formatted back, to the same
\* integer.
C35_ScalesAndRoundTrips ==
  scaled # NoScaled =>
    /\ scaled.e6 = Returned("number", ValueE6(decimal.text))
    /\ Len(AfterDot(decimal.text)) <= 6 =>
         /\ scaled.again = scaled.e6
         /\ DecimalToE6(Text(FormatE6(scaled.e6.value))) = scaled.e6

\* A negative decimal whose seventh fractional digit carries into the units.
C35_Witness ==
  /\ scaled # NoScaled
  /\ decimal.text = <<"-", "7", ".", "9", "9", "9", "9", "9", "9", "5">>
  /\ scaled.e6.value = 0 - 8000000
  /\ scaled.back = <<"-", "8", ".", "0", "0", "0", "0", "0", "0">>

\* The index one full reconciliation of the request leaves, from the index the
\* first run found: the rows of the ids asked for are the ledger's, the others
\* are as they were.
OnceReconciled ==
  LET ids == SeqToSet(RequestIds(request, index0, nextTradeID)) IN
  [j \in (DOMAIN index0) \cup ids |->
     IF j \in ids THEN TradeToPayload(ledger[j]) ELSE index0[j]]

\* The ids whose row a run has written already.
Written == {id \in ArgIds : upserted[id] >= 1}

\* C34: with the ledger unchanged, however often the full reconciliation of
\* the same ids is run, a completed run leaves the index one run leaves; and
\* writing again the rows already written changes nothing.
C34_OnceWhenDone == runPc = "done" => index = OnceReconciled

C34_RewriteChangesNothing ==
  \A b \in DOMAIN batches :
    (BatchHttpOk(b) /\ SeqToSet(batches[b].needFull) \subseteq Written)
      => index' = index

C34_Idempotent == []C34_OnceWhenDone /\ [][C34_RewriteChangesNothing]_vars

\* A second run has completed, over rows the first one had to change.
C34_Witness ==
  /\ runPc = "done"
  /\ index # index0
  /\ \E id \in ArgIds : upserted[id] = 2
  /\ \A id \in ArgIds : fetched[id] = upserted[id]
  /\ request.sel = "range"

\* C36: between callbacks, a non-empty pending set has a flush timer armed,
\* whether or not a run is in flight; and enqueue() of a non-finite or
\* non-positive id changes nothing of the batcher.
C36_PendingHasTimer == pending # {} => (timer /\ armed >= 1)

C36_RejectedChangesNothing ==
  \A x \in EnqueueInputs :
    (EnqueueRejects(x) /\ Enqueue(x))
      => UNCHANGED <<pending, timer, armed, inFlight, active, runs>>

C36_NeverStranded == []C36_PendingHasTimer /\ [][C36_RejectedChangesNothing]_vars

\* The timer fired while a run was in flight, and the ids enqueued meanwhile
\* still have a timer.
C36_Witness ==
  /\ inFlight
  /\ pending # {}
  /\ timer
  /\ lastOp = "fire"
  /\ fires = 2

\* The calls for the key of call a that were made before it and passed the
\* dedup test.
PassedEarlier(a) ==
  {b \in 1 .. (a - 1) :
     /\ attempts[b].kind = attempts[a].kind
     /\ attempts[b].tradeId = attempts[a].tradeId
     /\ attempts[b].pc # "deduped"}

\* C37: the dedup window does not slide: the record of a key holds the time of
\* the last call that passed the test, and a call made DEDUP_MS or more after
\* that one passes, however many calls were skipped in between.
C37_WindowDoesNotSlide ==
  /\ \A a \in Attempts :
       (\A b \in PassedEarlier(a) : attempts[a].t0 - attempts[b].t0 >= DEDUP_MS)
         => attempts[a].pc # "deduped"
  /\ \A key \in Keys :
       recentlySent[key] \in
         {0} \cup {attempts[a].t0 : a \in {b \in Attempts :
                                            /\ attempts[b].kind = key.kind
                                            /\ attempts[b].tradeId = key.tradeId
                                            /\ attempts[b].pc # "deduped"}}

\* A call passes DEDUP_MS after the one that passed, less than DEDUP_MS after
\* one that was skipped.
C37_Witness ==
  /\ Len(attempts) = 3
  /\ \A a \in Attempts : attempts[a].kind = "exit"
  /\ attempts[1].pc # "deduped"
  /\ attempts[2].pc = "deduped"
  /\ attempts[3].pc # "deduped"
  /\ attempts[3].t0 - attempts[1].t0 >= DEDUP_MS
  /\ attempts[3].t0 - attempts[2].t0 < DEDUP_MS

\* C40: a call that passed the dedup test ends confirmed on the ledger,
\* skipped by admission control, or with the trade enqueued for
\* reconciliation; a failed read of the locked or the free capital leaves the
\* trade enqueued or open to the next tick, not held back by its dedup record.
C40_EndsAccountedFor ==
  \A a \in Attempts :
    (Terminal(attempts[a].pc) /\ attempts[a].pc # "deduped") =>
      \/ attempts[a].pc = "confirmed" /\ attempts[a].enq = 0
      \/ attempts[a].pc \in {"skipStale", "skipLiquidity"}
      \/ attempts[a].pc = "failed" /\ attempts[a].enq = 1
      \/ /\ attempts[a].pc = "rejected"
         /\ \/ attempts[a].enq >= 1
            \/ ~DedupHit(recentlySent[[kind |-> attempts[a].kind,
                                       tradeId |-> attempts[a].tradeId]],
                         attempts[a].t0)

\* C39: whatever requests the write API has served, every row of the index
\* with state = 2 (Closed) has a closePrice that is not 0.
C39_ClosedHasClosePrice ==
  \A id \in DOMAIN index : index[id].state = 2 => index[id].closePrice # 0

\* The batcher has nothing left to do: no id pending, no timer, no run.
BatcherIdle == pending = {} /\ ~timer /\ armed = 0 /\ ~inFlight

\* C38: every TradeEvent received leads to a full reconciliation of its trade
\* that starts after the event was received, two events for one trade within
\* the debounce window included: once the batcher is idle, each event has a
\* run for its trade spawned after it.
C38_EveryEventReconciled ==
  BatcherIdle =>
    \A e \in 1 .. Len(events) :
      \E r \in (events[e].runsBefore + 1) .. Len(runs) :
        events[e].tradeId \in runs[r]

====
